---- MODULE Spec2Model ----
(***************************************************************************)
(* Financial Fortress: the TTL cache (src/data/cache.py) and the           *)
(* concurrent scanner (src/scanner/scanner.py).                            *)
(*                                                                         *)
(* SpecCache: the CacheManager API and get_or_fetch called one after the   *)
(*            other on one cache directory, with a clock.                  *)
(* SpecScan : one Scanner.scan_symbols run: the main thread, the           *)
(*            ThreadPoolExecutor and the fetch_symbol units of work.       *)
(***************************************************************************)
EXTENDS Integers, Sequences, FiniteSets, TLC

VARIABLES
    \* ---- CacheManager (src/data/cache.py) ----
    store,          \* cache_dir: file name -> file (content, st_mtime)
    now,            \* datetime.now(), in minutes
    enabled,        \* CacheManager.enabled
    ttl_minutes,    \* CacheManager.ttl_minutes: interval -> minutes
    ttl_arg,        \* the ttl_minutes argument the CacheManager was built with
    last,           \* the latest cache call: arguments, result, effects
    writers,        \* threads or processes inside the file write of a set
    \* ---- Scanner.scan_symbols (src/scanner/scanner.py) ----
    universe,       \* scan_universe: the universe name and its watchlist file
    symbols,        \* the input list
    max_concurrent, \* Scanner.max_concurrent
    lookback_days,  \* config.data.lookback_days
    pc,             \* where the main thread is in scan_symbols
    submitted,      \* number of executor.submit calls made
    task,           \* per future: the unit of work's position and result
    early,          \* as_completed: the futures already finished when it starts
    waiting,        \* as_completed: futures finished later, in completion order
    results,        \* the results list
    \* ---- SignalGenerator (src/analysis/signals.py) ----
    rsi_threshold,  \* SignalGenerator.rsi_threshold
    stoch_threshold,\* SignalGenerator.stoch_threshold
    signal,         \* the latest call of the generator: arguments and result
    scan_results,   \* the list handed to generate_signals_batch
    signals         \* the list generate_signals_batch returned

cacheVars == <<store, now, enabled, ttl_minutes, ttl_arg, writers>>
scanVars  == <<universe, symbols, max_concurrent, lookback_days, pc, submitted, task,
               early, waiting, results>>
sigVars   == <<rsi_threshold, stoch_threshold, signal, scan_results, signals>>
vars      == <<store, now, enabled, ttl_minutes, ttl_arg, last, writers, universe,
               symbols,
               max_concurrent, lookback_days, pc, submitted, task, early,
               waiting, results, rsi_threshold, stoch_threshold, signal,
               scan_results, signals>>

(***************************************************************************)
(* Bounds                                                                  *)
(***************************************************************************)
MaxNow == 3          \* the clock runs from 0 to MaxNow minutes
MaxTtl == 2          \* the TTL configured for the listed interval
MaxSymbols == 2      \* the longest input list of a scan
MaxWorkers == 2      \* the largest max_concurrent
HugeLookback == 1000000  \* a lookback_days beyond the range of date
TodayOrdinal == 739921   \* date.today().toordinal()

(***************************************************************************)
(* Values                                                                  *)
(***************************************************************************)
None == "None"
Corrupt == "corrupt"
Series == {"s1", "s2"}

\* Symbols and intervals are character sequences: the file name is built
\* from their characters.
SymA == <<"A">>
SymB == <<"b">>
Symbols == {SymA, SymB}
\* A symbol with a dot and a lower-case letter (a share class, as BRK.B).
SymDot == <<"A", ".", "b">>
I1d == <<"1", "d">>
I1wk == <<"1", "w", "k">>
Intervals == {I1d, I1wk}
Messages == {"boom"}

\* What one call of the series source does: return a series, return None,
\* or raise.
SourceOutcomes ==
    [kind : {"ret"}, data : Series \cup {None}, msg : {""}]
        \cup [kind : {"exc"}, data : {None}, msg : Messages]

\* What one DataFrame.to_parquet does to the file: write it, fail before
\* touching it, or fail part-way and leave a truncated file.
WriteOutcomes == {"ok", "fail", "torn"}

(***************************************************************************)
(* CacheManager                                                            *)
(***************************************************************************)
upper(c) ==
    CASE c = "a" -> "A"
      [] c = "b" -> "B"
      [] OTHER -> c

RECURSIVE safe_symbol(_)
safe_symbol(symbol) ==
    IF symbol = <<>> THEN <<>>
    ELSE LET c == upper(Head(symbol))
         IN  <<IF c \in {"/", "."} THEN "_" ELSE c>> \o safe_symbol(Tail(symbol))

_get_cache_path(symbol, interval) ==
    safe_symbol(symbol) \o <<"_">> \o interval \o <<".parquet">>

Files == {_get_cache_path(s, i) : s \in Symbols \cup {SymDot}, i \in Intervals}

NoFile == [data |-> "absent", mtime |-> 0]
exists(path) == store[path].data # "absent"

DefaultTtl == 60
DefaultLookback == 60
batch_delay_ms == 100

_get_ttl(interval) ==
    IF interval \in DOMAIN ttl_minutes THEN ttl_minutes[interval] ELSE DefaultTtl

\* Mutant of is_fresh: an entry that exists is fresh whatever its age.
is_fresh_ignores_ttl(symbol, interval) ==
    enabled /\ exists(_get_cache_path(symbol, interval))

\* Mutant of is_fresh: an entry whose age equals the TTL still counts as fresh.
is_fresh_inclusive(symbol, interval) ==
    LET cache_path == _get_cache_path(symbol, interval)
    IN  IF ~enabled THEN FALSE
        ELSE IF ~exists(cache_path) THEN FALSE
        ELSE now <= store[cache_path].mtime + _get_ttl(interval)

is_fresh(symbol, interval) ==
    LET cache_path == _get_cache_path(symbol, interval)
    IN  IF ~enabled THEN FALSE
        ELSE IF ~exists(cache_path) THEN FALSE
        ELSE now < store[cache_path].mtime + _get_ttl(interval)

\* pd.read_parquet: the stored frame, or an exception on a damaged file.
read_parquet(path) ==
    IF store[path].data = Corrupt
    THEN [kind |-> "exc", data |-> None]
    ELSE [kind |-> "ret", data |-> store[path].data]

\* Mutant of get: a read failure is not caught.
get_unguarded(symbol, interval) ==
    IF ~enabled THEN [kind |-> "ret", val |-> None]
    ELSE IF ~is_fresh(symbol, interval) THEN [kind |-> "ret", val |-> None]
    ELSE LET r == read_parquet(_get_cache_path(symbol, interval))
         IN  IF r.kind = "ret" THEN [kind |-> "ret", val |-> r.data]
             ELSE [kind |-> "exc", val |-> None]

\* CacheManager.get: kind "ret" with the value returned, "exc" if it raised.
get(symbol, interval) ==
    IF ~enabled THEN [kind |-> "ret", val |-> None]
    ELSE IF ~is_fresh(symbol, interval) THEN [kind |-> "ret", val |-> None]
    ELSE LET r == read_parquet(_get_cache_path(symbol, interval))
         IN  IF r.kind = "ret" THEN [kind |-> "ret", val |-> r.data]
             ELSE [kind |-> "ret", val |-> None]

\* Mutant of to_parquet: the write keeps the file's old modification time.
to_parquet_keeps_mtime(data, path, w) ==
    IF data = None THEN [kind |-> "exc", store |-> store]
    ELSE CASE w = "ok" ->
                [kind |-> "ret",
                 store |-> [store EXCEPT ![path] =
                                [data |-> data, mtime |-> store[path].mtime]]]
           [] w = "torn" ->
                [kind |-> "exc",
                 store |-> [store EXCEPT ![path] = [data |-> Corrupt, mtime |-> now]]]
           [] OTHER -> [kind |-> "exc", store |-> store]

\* data.to_parquet(cache_path) with outcome w; None has no to_parquet.
to_parquet(data, path, w) ==
    IF data = None THEN [kind |-> "exc", store |-> store]
    ELSE CASE w = "ok" ->
                [kind |-> "ret",
                 store |-> [store EXCEPT ![path] = [data |-> data, mtime |-> now]]]
           [] w = "torn" ->
                [kind |-> "exc",
                 store |-> [store EXCEPT ![path] = [data |-> Corrupt, mtime |-> now]]]
           [] OTHER -> [kind |-> "exc", store |-> store]

\* Mutant of set: a failed write is not caught.
set_unguarded(symbol, interval, data, w) ==
    IF ~enabled THEN [kind |-> "ret", ret |-> FALSE, store |-> store]
    ELSE LET r == to_parquet(data, _get_cache_path(symbol, interval), w)
         IN  IF r.kind = "ret"
             THEN [kind |-> "ret", ret |-> TRUE, store |-> r.store]
             ELSE [kind |-> "exc", ret |-> FALSE, store |-> r.store]

\* Mutant of set: the write is made whether or not caching is enabled.
set_when_disabled(symbol, interval, data, w) ==
    LET r == to_parquet(data, _get_cache_path(symbol, interval), w)
    IN  IF r.kind = "ret"
        THEN [kind |-> "ret", ret |-> TRUE, store |-> r.store]
        ELSE [kind |-> "ret", ret |-> FALSE, store |-> r.store]

\* CacheManager.set: kind "ret" with the flag returned ("exc" if it
\* raised), and the directory it leaves.
set(symbol, interval, data, w) ==
    IF ~enabled THEN [kind |-> "ret", ret |-> FALSE, store |-> store]
    ELSE LET r == to_parquet(data, _get_cache_path(symbol, interval), w)
         IN  IF r.kind = "ret"
             THEN [kind |-> "ret", ret |-> TRUE, store |-> r.store]
             ELSE [kind |-> "ret", ret |-> FALSE, store |-> r.store]

\* symbol.upper()
RECURSIVE upper_str(_)
upper_str(symbol) ==
    IF symbol = <<>> THEN <<>> ELSE <<upper(Head(symbol))>> \o upper_str(Tail(symbol))

IsPrefix(p, name) == Len(p) <= Len(name) /\ SubSeq(name, 1, Len(p)) = p
IsSuffix(q, name) ==
    Len(q) <= Len(name) /\ SubSeq(name, Len(name) - Len(q) + 1, Len(name)) = q

\* cache_dir.glob(pattern) for the three patterns invalidate builds; "*"
\* stands for any run of characters.
glob_symbol(symbol) ==
    {f \in Files : exists(f)
        /\ IsPrefix(upper_str(symbol) \o <<"_">>, f)
        /\ IsSuffix(<<".parquet">>, f)
        /\ Len(f) >= Len(symbol) + 2}
glob_interval(interval) ==
    {f \in Files : exists(f) /\ IsSuffix(<<"_">> \o interval \o <<".parquet">>, f)}
glob_all == {f \in Files : exists(f) /\ IsSuffix(<<".parquet">>, f)}

\* CacheManager.invalidate: the directory it leaves. An omitted (None) or
\* empty argument is the empty string.
invalidate(symbol, interval) ==
    IF symbol # <<>> /\ interval # <<>>
    THEN LET cache_path == _get_cache_path(symbol, interval)
         IN  IF exists(cache_path) THEN [store EXCEPT ![cache_path] = NoFile]
             ELSE store
    ELSE LET matched == IF symbol # <<>> THEN glob_symbol(symbol)
                        ELSE IF interval # <<>> THEN glob_interval(interval)
                        ELSE glob_all
         IN  [f \in Files |-> IF f \in matched THEN NoFile ELSE store[f]]

\* Mutant of get_or_fetch: the cache is not consulted before fetching.
get_or_fetch_always_fetches(symbol, interval, src, w) ==
    LET quiet == [kind |-> "ret", val |-> None, msg |-> "", calls |-> 1,
                  wrote |-> FALSE, wdata |-> None, wret |-> FALSE,
                  store |-> store]
    IN  IF src.kind = "exc"
        THEN [quiet EXCEPT !.kind = "exc", !.msg = src.msg]
        ELSE LET s == set(symbol, interval, src.data, w)
             IN  [quiet EXCEPT !.val = src.data, !.wrote = TRUE,
                               !.wdata = src.data, !.wret = s.ret,
                               !.store = s.store]

\* Mutant of get_or_fetch: the data is returned only if the cache write
\* succeeded.
get_or_fetch_needs_write(symbol, interval, src, w) ==
    LET cached == get(symbol, interval)
        quiet == [kind |-> "ret", val |-> None, msg |-> "", calls |-> 0,
                  wrote |-> FALSE, wdata |-> None, wret |-> FALSE,
                  store |-> store]
    IN  IF cached.val # None
        THEN [quiet EXCEPT !.val = cached.val]
        ELSE IF src.kind = "exc"
        THEN [quiet EXCEPT !.kind = "exc", !.msg = src.msg, !.calls = 1]
        ELSE LET s == set(symbol, interval, src.data, w)
             IN  [quiet EXCEPT !.val = IF s.ret THEN src.data ELSE None,
                               !.calls = 1, !.wrote = TRUE,
                               !.wdata = src.data, !.wret = s.ret,
                               !.store = s.store]

\* Mutant of get_or_fetch: a failed source call removes the entry that was
\* found stale.
get_or_fetch_drops_stale(symbol, interval, src, w) ==
    LET cached == get(symbol, interval)
        quiet == [kind |-> "ret", val |-> None, msg |-> "", calls |-> 0,
                  wrote |-> FALSE, wdata |-> None, wret |-> FALSE,
                  store |-> store]
    IN  IF cached.kind = "exc"
        THEN [quiet EXCEPT !.kind = "exc", !.msg = "read"]
        ELSE IF cached.val # None
        THEN [quiet EXCEPT !.val = cached.val]
        ELSE IF src.kind = "exc"
        THEN [quiet EXCEPT !.kind = "exc", !.msg = src.msg, !.calls = 1,
                           !.store = invalidate(symbol, interval)]
        ELSE LET s == set(symbol, interval, src.data, w)
             IN  [quiet EXCEPT !.val = src.data, !.calls = 1,
                               !.wrote = TRUE, !.wdata = src.data,
                               !.wret = s.ret, !.store = s.store]

\* CacheManager.get_stats: the number of .parquet files and the enabled
\* flag (the sizes are not modelled).
get_stats == [files |-> Cardinality(glob_all), enabled |-> enabled]

\* get_or_fetch with a fetcher that does src and a cache write that does w:
\* what the caller gets (kind "ret" and val, or kind "exc" and msg), how
\* often the fetcher ran, whether cache.set was called, with what data and
\* what it returned, and the directory afterwards.
get_or_fetch(symbol, interval, src, w) ==
    LET cached == get(symbol, interval)
        quiet == [kind |-> "ret", val |-> None, msg |-> "", calls |-> 0,
                  wrote |-> FALSE, wdata |-> None, wret |-> FALSE,
                  store |-> store]
    IN  IF cached.kind = "exc"
        THEN [quiet EXCEPT !.kind = "exc", !.msg = "read"]
        ELSE IF cached.val # None
        THEN [quiet EXCEPT !.val = cached.val]
        ELSE IF src.kind = "exc"
        THEN [quiet EXCEPT !.kind = "exc", !.msg = src.msg, !.calls = 1]
        ELSE LET s == set(symbol, interval, src.data, w)
             IN  IF s.kind = "exc"
                 THEN [quiet EXCEPT !.kind = "exc", !.msg = "write",
                                    !.calls = 1, !.wrote = TRUE,
                                    !.wdata = src.data, !.store = s.store]
                 ELSE [quiet EXCEPT !.val = src.data, !.calls = 1,
                                    !.wrote = TRUE, !.wdata = src.data,
                                    !.wret = s.ret, !.store = s.store]

(***************************************************************************)
(* YFinanceProvider.fetch_ohlcv, the fetcher the scanner hands over        *)
(***************************************************************************)
\* The two messages fetch_ohlcv can raise with: validate_date_range's, which
\* names the dates only, and the one built around a failure of yfinance,
\* which names the validated (stripped, upper-cased) symbol.
StartAfterEnd == "Start date is after end date"
CouldNotFetch(symbol) ==
    CASE upper_str(symbol) = <<"A">> -> "Could not fetch data for A"
      [] upper_str(symbol) = <<"B">> -> "Could not fetch data for B"
      [] OTHER -> "Could not fetch data for another symbol"

\* What yf.Ticker(symbol).history does: a frame, an empty frame, or raise.
YfOutcomes == Series \cup {"empty", "raise"}

\* The lookback windows a fetch is asked for: start = end - lookback.
Lookbacks == {DefaultLookback, -DefaultLookback}

\* fetch_ohlcv for the range [today - days, today]: validate_date_range
\* runs before the try block, the yfinance call inside it.
fetch_ohlcv(symbol, days, y) ==
    IF days < 0
    THEN [kind |-> "exc", data |-> None, msg |-> StartAfterEnd]
    ELSE IF y \in Series
    THEN [kind |-> "ret", data |-> y, msg |-> ""]
    ELSE [kind |-> "exc", data |-> None, msg |-> CouldNotFetch(symbol)]

ProviderOutcomes(symbol) ==
    {fetch_ohlcv(symbol, d, y) : d \in Lookbacks, y \in YfOutcomes}

(***************************************************************************)
(* SpecCache: the cache API called sequentially                            *)
(***************************************************************************)
\* The symbols the calls of SpecCache are made for.
CacheSymbols == {SymA}

\* The TTL mapping the CacheManager is constructed with.
ConfiguredTtl == [i \in {I1d} |-> MaxTtl]

\* The ttl_minutes argument of CacheManager.__init__: omitted (None), or a
\* mapping from interval to minutes.
NoTtlGiven == [given |-> FALSE, map |-> <<>>]
GivenTtl(m) == [given |-> TRUE, map |-> m]

\* config.cache.ttl_minutes, the default of CacheConfig.
ConfigTtl1d == 240
ConfigTtl1h == 30
ConfigTtl5m == 5
ConfigTtl ==
    [i \in {I1d, <<"1", "h">>, <<"5", "m">>} |->
        IF i = I1d THEN ConfigTtl1d
        ELSE IF i = <<"1", "h">> THEN ConfigTtl1h ELSE ConfigTtl5m]

\* self.ttl_minutes = ttl_minutes or config.cache.ttl_minutes: None and
\* the empty dict are both falsy.
init_ttl(arg) ==
    IF ~arg.given \/ DOMAIN arg.map = {} THEN ConfigTtl ELSE arg.map

\* The threads or processes that may be inside a file write at once; none
\* of them is, outside the concurrent use of one cache directory.
MaxWriters == 2
Writers == 1..MaxWriters
NoWriters ==
    [p \in Writers |->
        [st |-> "idle", path |-> <<>>, data |-> None, others |-> {}]]

\* last: op, symbol, interval and
\*   time     when a set was called
\*   kind     "ret" (the call returned) or "exc" (it raised), msg the message
\*   flag     the boolean a call returned (is_fresh, set)
\*   val      the series or None a call returned (get, get_or_fetch)
\*   arg      the data handed to set / to the cache write of get_or_fetch
\*   fresh    is_fresh(symbol, interval) when the call was made
\*   readable the file held a readable series when the call was made
\*   calls    how often get_or_fetch ran the fetcher
\*   wrote    get_or_fetch called cache.set, wret what that returned
\*   wfail    the file write of the call failed
\*   srck     what the fetcher did when get_or_fetch ran it ("none": it
\*            did not run), fetched the data it returned
\*   since    get: the minutes since the set called just before it on the
\*            same key (-1: the call before was no such set), sflag and
\*            sarg that set's result and data
\*   files    get_stats: the file count it reported
NoCall ==
    [op |-> "none", symbol |-> <<>>, interval |-> <<>>, time |-> 0,
     kind |-> "ret", flag |-> FALSE, val |-> None, msg |-> "", arg |-> None,
     fresh |-> FALSE, readable |-> FALSE, calls |-> 0, wrote |-> FALSE,
     wret |-> FALSE, wfail |-> FALSE, srck |-> "none", fetched |-> None,
     since |-> -1, sflag |-> FALSE, sarg |-> None, files |-> 0]

Call(op, symbol, interval) ==
    [NoCall EXCEPT !.op = op, !.symbol = symbol, !.interval = interval,
                   !.fresh = is_fresh(symbol, interval),
                   !.readable =
                       store[_get_cache_path(symbol, interval)].data \in Series]

\* No SignalGenerator call has been made; the thresholds are the defaults.
DefaultThreshold == 50
NoSignal == [op |-> "none"]
InitSignalIdle ==
    /\ rsi_threshold = DefaultThreshold
    /\ stoch_threshold = DefaultThreshold
    /\ signal = NoSignal
    /\ scan_results = <<>>
    /\ signals = <<>>

\* scan_symbols was called directly, not through scan_universe.
NoFileNeeded == [state |-> "unused", tickers |-> <<>>]
NoUniverse == [name |-> "none", file |-> NoFileNeeded]

InitScanIdle ==
    /\ universe = NoUniverse
    /\ symbols = <<>>
    /\ max_concurrent = 1
    /\ lookback_days = DefaultLookback
    /\ pc = "idle"
    /\ submitted = 0
    /\ task = <<>>
    /\ early = {}
    /\ waiting = <<>>
    /\ results = <<>>

InitCache ==
    /\ store = [f \in Files |-> NoFile]
    /\ now = 0
    /\ enabled \in BOOLEAN
    /\ ttl_arg = GivenTtl(ConfiguredTtl)
    /\ ttl_minutes = ConfiguredTtl
    /\ writers = NoWriters
    /\ last = NoCall
    /\ InitScanIdle
    /\ InitSignalIdle

Tick ==
    /\ now < MaxNow
    /\ now' = now + 1
    /\ UNCHANGED <<store, enabled, ttl_minutes, ttl_arg, last, writers>>
    /\ UNCHANGED <<scanVars, sigVars>>

IsFresh(symbol, interval) ==
    /\ last' = [Call("is_fresh", symbol, interval) EXCEPT
                    !.flag = is_fresh(symbol, interval)]
    /\ UNCHANGED cacheVars
    /\ UNCHANGED <<scanVars, sigVars>>

Get(symbol, interval) ==
    LET afterSet == /\ last.op = "set"
                    /\ last.symbol = symbol
                    /\ last.interval = interval
        g == get(symbol, interval)
    IN  /\ last' = [Call("get", symbol, interval) EXCEPT
                        !.kind = g.kind, !.val = g.val,
                        !.since = IF afterSet THEN now - last.time ELSE -1,
                        !.sflag = afterSet /\ last.flag,
                        !.sarg = IF afterSet THEN last.arg ELSE None]
        /\ UNCHANGED cacheVars
        /\ UNCHANGED <<scanVars, sigVars>>

Set(symbol, interval, data, w) ==
    LET s == set(symbol, interval, data, w)
    IN  /\ store' = s.store
        /\ last' = [Call("set", symbol, interval) EXCEPT
                        !.time = now, !.kind = s.kind, !.flag = s.ret,
                        !.arg = data,
                        !.wfail = (enabled /\ (w # "ok" \/ data = None))]
        /\ UNCHANGED <<now, enabled, ttl_minutes, ttl_arg, writers>>
        /\ UNCHANGED <<scanVars, sigVars>>

Invalidate(symbol, interval) ==
    /\ store' = invalidate(symbol, interval)
    /\ last' = [NoCall EXCEPT !.op = "invalidate", !.symbol = symbol,
                              !.interval = interval]
    /\ UNCHANGED <<now, enabled, ttl_minutes, ttl_arg, writers>>
    /\ UNCHANGED <<scanVars, sigVars>>

GetOrFetch(symbol, interval, src, w) ==
    LET g == get_or_fetch(symbol, interval, src, w)
    IN  /\ store' = g.store
        /\ last' = [Call("get_or_fetch", symbol, interval) EXCEPT
                        !.kind = g.kind, !.val = g.val, !.msg = g.msg,
                        !.calls = g.calls, !.wrote = g.wrote,
                        !.wret = g.wret, !.arg = g.wdata,
                        !.srck = IF g.calls = 0 THEN "none" ELSE src.kind,
                        !.fetched = IF g.calls = 0 THEN None ELSE src.data,
                        !.wfail = (g.wrote /\ enabled
                                   /\ (w # "ok" \/ src.data = None))]
        /\ UNCHANGED <<now, enabled, ttl_minutes, ttl_arg, writers>>
        /\ UNCHANGED <<scanVars, sigVars>>

GetStats ==
    /\ last' = [NoCall EXCEPT !.op = "get_stats", !.files = get_stats.files,
                              !.flag = get_stats.enabled]
    /\ UNCHANGED cacheVars
    /\ UNCHANGED <<scanVars, sigVars>>

NextCache ==
    \/ Tick
    \/ GetStats
    \/ \E s \in CacheSymbols, i \in Intervals : IsFresh(s, i)
    \/ \E s \in CacheSymbols, i \in Intervals : Get(s, i)
    \/ \E s \in CacheSymbols, i \in Intervals, d \in Series \cup {None},
          w \in WriteOutcomes : Set(s, i, d, w)
    \/ \E s \in CacheSymbols \cup {<<>>}, i \in Intervals \cup {<<>>} :
          Invalidate(s, i)
    \/ \E s \in CacheSymbols, i \in Intervals, w \in WriteOutcomes :
          \E src \in SourceOutcomes \cup ProviderOutcomes(s) :
              GetOrFetch(s, i, src, w)

SpecCache == InitCache /\ [][NextCache]_vars

(***************************************************************************)
(* SpecInvalidate: set and invalidate on symbols with special characters   *)
(***************************************************************************)
InvSymbols == {SymA, SymDot}

InitInvalidate ==
    /\ store = [f \in Files |-> NoFile]
    /\ now = 0
    /\ enabled = TRUE
    /\ ttl_arg = GivenTtl(ConfiguredTtl)
    /\ ttl_minutes = ConfiguredTtl
    /\ writers = NoWriters
    /\ last = NoCall
    /\ InitScanIdle
    /\ InitSignalIdle

NextInvalidate ==
    \/ \E s \in InvSymbols, i \in Intervals, d \in Series : Set(s, i, d, "ok")
    \/ \E s \in InvSymbols \cup {<<>>}, i \in Intervals \cup {<<>>} :
          Invalidate(s, i)

SpecInvalidate == InitInvalidate /\ [][NextInvalidate]_vars

(***************************************************************************)
(* Scanner: fetch_symbol and scan_symbols                                  *)
(***************************************************************************)
ScanInterval == I1d

\* end - timedelta(days=lookback_days) leaves the range of date.
date_overflows(days) == days >= TodayOrdinal

\* What a future holds: nothing yet, the dict fetch_symbol returned, or the
\* exception it raised.
NoResult == [kind |-> "none", data |-> None, error |-> None]
ReturnedDict(data, error) == [kind |-> "dict", data |-> data, error |-> error]
RaisedException(msg) == [kind |-> "exc", data |-> None, error |-> msg]

Tasks == 1..Len(task)
Running == {t \in Tasks : task[t].st \in {"run", "fetch", "store"}}
Queued == {t \in Tasks : task[t].st = "queued"}

\* Mutant of worker_available: the pool starts a thread for every item.
worker_always_available == TRUE

\* ThreadPoolExecutor(max_workers=max_concurrent): a work item leaves the
\* queue only when one of the max_workers threads is idle.
worker_available == Cardinality(Running) < max_concurrent

\* Mutant of fetch_result: a failed fetch leaves the error field unset.
fetch_result_drops_error(outcome, data, msg) ==
    IF outcome = "ok" THEN ReturnedDict(data, None)
    ELSE ReturnedDict(None, None)

\* fetch_symbol's result dict: data on success, str(e) as error on an
\* exception of get_or_fetch.
fetch_result(outcome, data, msg) ==
    IF outcome = "ok" THEN ReturnedDict(data, None)
    ELSE ReturnedDict(None, msg)

\* Mutant of collected_result: a future that raised adds no result.
collected_result_skips_failures(t) ==
    IF task[t].res.kind = "dict"
    THEN <<[symbol |-> task[t].symbol, data |-> task[t].res.data,
            error |-> task[t].res.error]>>
    ELSE <<>>

\* What scan_symbols appends for future t: future.result(), or on an
\* exception the error dict built from futures[future].
collected_result(t) ==
    IF task[t].res.kind = "dict"
    THEN <<[symbol |-> task[t].symbol, data |-> task[t].res.data,
            error |-> task[t].res.error]>>
    ELSE <<[symbol |-> task[t].symbol, data |-> None,
            error |-> task[t].res.error]>>

\* Future t finishes with res: as_completed's waiter, once installed, notes
\* it in completion order. seq is its rank among the completions.
Finish(t, res, src, fetched) ==
    /\ task' = [task EXCEPT
                    ![t].st = "done", ![t].res = res, ![t].src = src,
                    ![t].fetched = fetched,
                    ![t].seq = 1 + Cardinality({u \in Tasks :
                                    task[u].st \in {"done", "collected"}})]
    /\ waiting' = IF pc \in {"collect", "pause"} THEN Append(waiting, t)
                  ELSE waiting

\* What the provider does in a scan: the series it returns is not the one
\* the cache directory held before the scan.
ScanSourceOutcomes == {o \in SourceOutcomes : o.data # "s1"}

RECURSIVE SeqsUpTo(_, _)
SeqsUpTo(S, n) ==
    IF n = 0 THEN {<<>>}
    ELSE LET shorter == SeqsUpTo(S, n - 1)
         IN  shorter \cup {Append(q, x) : q \in shorter, x \in S}

\* The cache directory a scan may find: per file nothing, a fresh series, a
\* stale series or a fresh damaged file.
ScanFile == {NoFile, [data |-> "s1", mtime |-> MaxTtl],
             [data |-> "s1", mtime |-> 0], [data |-> Corrupt, mtime |-> MaxTtl]}
ScanFiles == {_get_cache_path(s, ScanInterval) : s \in Symbols}

\* The cache directory is read and written only with caching enabled and a
\* date range that does not overflow; otherwise it starts empty.
InitScan ==
    /\ universe = NoUniverse
    /\ symbols \in SeqsUpTo(Symbols, MaxSymbols)
    /\ max_concurrent \in 1..MaxWorkers
    /\ lookback_days \in {DefaultLookback, HugeLookback}
    /\ enabled \in BOOLEAN
    /\ store \in {[f \in Files |-> IF f \in ScanFiles THEN g[f] ELSE NoFile] :
                    g \in [ScanFiles -> ScanFile]}
    /\ (~enabled \/ lookback_days # DefaultLookback)
            => \A f \in Files : store[f] = NoFile
    /\ (~enabled) => lookback_days = DefaultLookback
    /\ now = MaxTtl
    /\ ttl_arg = GivenTtl(ConfiguredTtl)
    /\ ttl_minutes = ConfiguredTtl
    /\ writers = NoWriters
    /\ last = NoCall
    /\ pc = "start"
    /\ submitted = 0
    /\ task = <<>>
    /\ early = {}
    /\ waiting = <<>>
    /\ results = <<>>
    /\ InitSignalIdle

\* results = []; ThreadPoolExecutor(max_workers=...) raises ValueError for
\* max_workers <= 0.
Begin ==
    /\ pc = "start"
    /\ pc' = IF max_concurrent <= 0 THEN "raised" ELSE "submit"
    /\ UNCHANGED <<sigVars, universe, symbols, max_concurrent, lookback_days, submitted, task,
                   early, waiting, results, last>>
    /\ UNCHANGED cacheVars

\* executor.submit(self.fetch_symbol, symbol, interval) for the next symbol.
Submit ==
    /\ pc = "submit"
    /\ submitted < Len(symbols)
    /\ task' = Append(task, [symbol |-> symbols[submitted + 1], st |-> "queued",
                             data |-> None, res |-> NoResult,
                             src |-> "none", fetched |-> None, seq |-> 0])
    /\ submitted' = submitted + 1
    /\ UNCHANGED <<sigVars, universe, symbols, max_concurrent, lookback_days, pc, early, waiting,
                   results, last>>
    /\ UNCHANGED cacheVars

\* as_completed(futures) starts: the futures already finished are yielded
\* first, in no particular order.
StartIterating ==
    /\ pc = "submit"
    /\ submitted = Len(symbols)
    /\ early' = {t \in Tasks : task[t].st = "done"}
    /\ pc' = "collect"
    /\ UNCHANGED <<sigVars, universe, symbols, max_concurrent, lookback_days, submitted, task,
                   waiting, results, last>>
    /\ UNCHANGED cacheVars

\* A pool thread takes the oldest queued work item.
Start(t) ==
    /\ t \in Queued
    /\ \A u \in Queued : t <= u
    /\ worker_available
    /\ task' = [task EXCEPT ![t].st = "run"]
    /\ UNCHANGED <<sigVars, universe, symbols, max_concurrent, lookback_days, pc, submitted,
                   early, waiting, results, last>>
    /\ UNCHANGED cacheVars

\* fetch_symbol up to the fetcher call: the date range, then cache.get
\* inside get_or_fetch.
Lookup(t) ==
    /\ t \in Tasks
    /\ task[t].st = "run"
    /\ IF date_overflows(lookback_days)
       THEN Finish(t, RaisedException("date value out of range"), "none", None)
       ELSE LET cached == get(task[t].symbol, ScanInterval)
            IN  IF cached.kind = "exc"
                THEN Finish(t, fetch_result("exc", None, "read"), "none", None)
                ELSE IF cached.val # None
                THEN Finish(t, fetch_result("ok", cached.val, ""), "none", None)
                ELSE /\ task' = [task EXCEPT ![t].st = "fetch"]
                     /\ UNCHANGED waiting
    /\ UNCHANGED <<sigVars, universe, symbols, max_concurrent, lookback_days, pc, submitted,
                   early, results, last>>
    /\ UNCHANGED cacheVars

\* provider.fetch_ohlcv returns or raises.
SourceReturn(t, src) ==
    /\ t \in Tasks
    /\ task[t].st = "fetch"
    /\ IF src.kind = "exc"
       THEN Finish(t, fetch_result("exc", None, src.msg), "exc", None)
       ELSE /\ task' = [task EXCEPT ![t].st = "store", ![t].data = src.data,
                                    ![t].src = "ret", ![t].fetched = src.data]
            /\ UNCHANGED waiting
    /\ UNCHANGED <<sigVars, universe, symbols, max_concurrent, lookback_days, pc, submitted,
                   early, results, last>>
    /\ UNCHANGED cacheVars

\* Mutant of may_write: the cache write may start while the source call is
\* still running.
may_write_early(t) == task[t].st \in {"fetch", "store"}

\* get_or_fetch reaches cache.set only after fetcher() has returned.
may_write(t) == task[t].st = "store"

\* cache.set inside get_or_fetch, then fetch_symbol returns its dict.
Store(t, w) ==
    /\ t \in Tasks
    /\ may_write(t)
    /\ LET s == set(task[t].symbol, ScanInterval, task[t].data, w)
       IN  /\ store' = s.store
           /\ IF s.kind = "exc"
              THEN Finish(t, fetch_result("exc", None, "write"), "ret",
                          task[t].fetched)
              ELSE Finish(t, fetch_result("ok", task[t].data, ""), "ret",
                          task[t].fetched)
    /\ UNCHANGED <<sigVars, universe, symbols, max_concurrent, lookback_days, pc, submitted,
                   early, results, last, now, enabled, ttl_minutes,
                   ttl_arg, writers>>

\* One turn of the as_completed loop: the next finished future's result is
\* appended; then the pause if batch_delay_ms > 0.
Collect(t) ==
    /\ pc = "collect"
    /\ IF early # {} THEN t \in early
       ELSE waiting # <<>> /\ t = Head(waiting)
    /\ results' = results \o collected_result(t)
    /\ early' = early \ {t}
    /\ waiting' = IF early # {} THEN waiting ELSE Tail(waiting)
    /\ task' = [task EXCEPT ![t].st = "collected"]
    /\ pc' = IF batch_delay_ms > 0 THEN "pause" ELSE "collect"
    /\ UNCHANGED <<sigVars, universe, symbols, max_concurrent, lookback_days, submitted, last>>
    /\ UNCHANGED cacheVars

\* time.sleep(batch_delay_ms / 1000) is over.
Pause ==
    /\ pc = "pause"
    /\ pc' = "collect"
    /\ UNCHANGED <<sigVars, universe, symbols, max_concurrent, lookback_days, submitted, task,
                   early, waiting, results, last>>
    /\ UNCHANGED cacheVars

\* Mutant of as_completed_exhausted: the loop ends as soon as no finished
\* future is waiting to be yielded.
as_completed_stops_when_idle == early = {} /\ waiting = <<>>

\* as_completed(futures) stops only after it has yielded every future.
as_completed_exhausted == \A t \in Tasks : task[t].st = "collected"

\* as_completed is exhausted, the pool is shut down, results is returned.
Return ==
    /\ pc = "collect"
    /\ as_completed_exhausted
    /\ pc' = "returned"
    /\ UNCHANGED <<sigVars, universe, symbols, max_concurrent, lookback_days, submitted, task,
                   early, waiting, results, last>>
    /\ UNCHANGED cacheVars

NextScan ==
    \/ Begin
    \/ Submit
    \/ StartIterating
    \/ \E t \in Tasks : Start(t)
    \/ \E t \in Tasks : Lookup(t)
    \/ \E t \in Tasks, src \in ScanSourceOutcomes : SourceReturn(t, src)
    \/ \E t \in Tasks, w \in WriteOutcomes : Store(t, w)
    \/ \E t \in Tasks : Collect(t)
    \/ Pause
    \/ Return

SpecScan == InitScan /\ [][NextScan]_vars

\* The steps of a scan other than the return of a source call.
NextScanButSource ==
    \/ Begin
    \/ Submit
    \/ StartIterating
    \/ \E t \in Tasks : Start(t)
    \/ \E t \in Tasks : Lookup(t)
    \/ \E t \in Tasks, w \in WriteOutcomes : Store(t, w)
    \/ \E t \in Tasks : Collect(t)
    \/ Pause
    \/ Return

\* A scan whose threads are scheduled fairly and whose source calls all
\* return or raise.
SpecScanLive == InitScan /\ [][NextScan]_vars /\ WF_vars(NextScan)

\* A scan whose threads are scheduled fairly, but whose source calls need
\* not ever return: nothing in fetch_symbol or scan_symbols bounds the time
\* of provider.fetch_ohlcv.
SpecScanHang == InitScan /\ [][NextScan]_vars /\ WF_vars(NextScanButSource)

(***************************************************************************)
(* Claims about the scanner, checked under SpecScan                        *)
(***************************************************************************)
Finished(t) == task[t].st \in {"done", "collected"}
CountIn(seq, s) == Cardinality({i \in 1..Len(seq) : seq[i] = s})
ResultSymbols == [i \in 1..Len(results) |-> results[i].symbol]

\* C1: when scan_symbols returns, the results list has exactly one entry
\* per entry of the input list (N entries for N symbols, N = 0 included),
\* and each symbol occurs among the results as often as in the input.
C1_FanOutComplete ==
    pc = "returned"
        => /\ Len(results) = Len(symbols)
           /\ \A s \in Symbols : CountIn(ResultSymbols, s) = CountIn(symbols, s)
           /\ \A t \in Tasks :
                \E i \in 1..Len(results) :
                    results[i] = [symbol |-> symbols[t],
                                  data |-> task[t].res.data,
                                  error |-> task[t].res.error]

C1_Witness ==
    /\ pc = "returned"
    /\ Len(symbols) = 2
    /\ Len(results) = 2
    /\ \E i, j \in 1..Len(results) :
          /\ results[i].error # None
          /\ results[j].data \in Series

\* C2: a source call that raises for X ends as a result dict for X with the
\* error set and no data; scan_symbols does not raise; every unit of work
\* whose source call returned ends as a result carrying the series it
\* fetched, and all of them are in the returned list.
C2_Isolation ==
    /\ pc # "raised"
    /\ \A t \in Tasks :
          /\ (Finished(t) /\ task[t].src = "exc")
                => /\ task[t].res.kind = "dict"
                   /\ task[t].res.error \in Messages
                   /\ task[t].res.data = None
          /\ (Finished(t) /\ task[t].src = "ret")
                => /\ task[t].res.kind = "dict"
                   /\ task[t].res.data = task[t].fetched
                   /\ task[t].res.error = None
          /\ (pc = "returned" /\ task[t].src # "none")
                => \E i \in 1..Len(results) :
                      results[i] = [symbol |-> task[t].symbol,
                                    data |-> task[t].res.data,
                                    error |-> task[t].res.error]

C2_Witness ==
    /\ pc = "returned"
    /\ \E x, y \in Tasks :
          /\ task[x].symbol # task[y].symbol
          /\ task[x].src = "exc"
          /\ task[y].src = "ret"
          /\ \E i, j \in 1..Len(results) :
                /\ results[i].symbol = task[x].symbol
                /\ results[i].error = "boom"
                /\ results[j].symbol = task[y].symbol
                /\ results[j].data = "s2"
                /\ results[j].error = None

\* C3: every result of fetch_symbol / scan_symbols has exactly one of data
\* and error present.
C3_ExactlyOneOfDataAndError ==
    /\ \A i \in 1..Len(results) :
          (results[i].data = None) # (results[i].error = None)
    /\ \A t \in Tasks :
          (Finished(t) /\ task[t].res.kind = "dict")
                => (task[t].res.data = None) # (task[t].res.error = None)

\* C4: at most max_concurrent fetch_symbol units of work execute at the
\* same time.
C4_BoundedConcurrency == Cardinality(Running) <= max_concurrent

C4_Witness ==
    /\ Cardinality(Running) = max_concurrent
    /\ Queued # {}
    /\ \E t \in Running : task[t].st = "fetch"

(***************************************************************************)
(* Claims about the cache, checked under SpecCache                         *)
(***************************************************************************)
LastPath == _get_cache_path(last.symbol, last.interval)

\* C5 as stated: if the entry is fresh (is_fresh holds) when get_or_fetch
\* is called, that call never invokes the fetcher.
C5_FreshNeverFetches ==
    (last.op = "get_or_fetch" /\ last.fresh) => last.calls = 0

\* C5, amended: if the entry is fresh and its file is readable when
\* get_or_fetch is called, that call never invokes the fetcher and returns
\* the cached series without writing the cache.
C5_FreshReadableNeverFetches ==
    (last.op = "get_or_fetch" /\ last.fresh /\ last.readable)
        => /\ last.calls = 0
           /\ last.srck = "none"
           /\ ~last.wrote
           /\ last.kind = "ret"
           /\ last.val = store[LastPath].data

C5_Witness ==
    /\ last.op = "get_or_fetch"
    /\ last.fresh
    /\ last.readable
    /\ last.calls = 0
    /\ last.val \in Series

\* C6: is_fresh is true iff caching is enabled, the entry exists and the
\* time e elapsed since its last write is less than the TTL T of its
\* interval; at e = T it is stale.
C6_FreshIffYoungerThanTtl ==
    /\ \A s \in CacheSymbols, i \in Intervals :
         LET f == store[_get_cache_path(s, i)]
             e == now - f.mtime
             T == _get_ttl(i)
         IN  /\ is_fresh(s, i) <=> (enabled /\ f.data # "absent" /\ e < T)
             /\ (f.data # "absent" /\ e = T) => ~is_fresh(s, i)
    /\ (last.op = "is_fresh" /\ last.flag)
            => (enabled /\ store[LastPath].data # "absent")
    /\ (last.op = "is_fresh" /\ ~last.flag /\ enabled
            /\ store[LastPath].data # "absent")
            => now - store[LastPath].mtime >= _get_ttl(last.interval)

C6_Witness ==
    /\ last.op = "is_fresh"
    /\ ~last.flag
    /\ enabled
    /\ store[LastPath].data # "absent"
    /\ now - store[LastPath].mtime = _get_ttl(last.interval)
    /\ ~is_fresh(last.symbol, last.interval)

\* C7 as stated: a get called right after set(sym, interval, series),
\* before the TTL has elapsed, returns the series handed to set.
C7_SetThenGet ==
    (last.op = "get" /\ last.since >= 0 /\ last.since < _get_ttl(last.interval)
        /\ last.sarg \in Series)
        => last.val = last.sarg

\* C7, amended: a get called right after a set(sym, interval, series) that
\* returned true, before the TTL has elapsed, returns the series handed to
\* set.
C7_SuccessfulSetThenGet ==
    (last.op = "get" /\ last.since >= 0 /\ last.since < _get_ttl(last.interval)
        /\ last.sflag)
        => (last.kind = "ret" /\ last.val = last.sarg /\ last.val \in Series)

C7_Witness ==
    /\ last.op = "get"
    /\ last.since = 1
    /\ last.sflag
    /\ last.val = last.sarg
    /\ last.val \in Series

\* C8: get returns the stored series only if the entry is fresh; on a
\* stale, absent or unreadable entry it returns None; it never raises.
C8_GetOnlyFreshNeverRaises ==
    last.op = "get"
        => /\ last.kind = "ret"
           /\ last.val # None
                => (last.fresh /\ last.val = store[LastPath].data
                    /\ last.val \in Series)
           /\ (~last.fresh \/ ~last.readable) => last.val = None

C8_Witness ==
    /\ last.op = "get"
    /\ last.fresh
    /\ store[LastPath].data = Corrupt
    /\ last.kind = "ret"
    /\ last.val = None

\* C9: set never raises; when the write succeeds the file holds the series
\* with the time of the call as its write time and set returns true; when
\* the write fails set returns false.
C9_SetNeverRaises ==
    last.op = "set"
        => /\ last.kind = "ret"
           /\ last.flag
                => store[LastPath] = [data |-> last.arg, mtime |-> last.time]
           /\ last.wfail => ~last.flag
           /\ (enabled /\ ~last.wfail) => last.flag

C9_Witness ==
    /\ last.op = "set"
    /\ last.wfail
    /\ last.kind = "ret"
    /\ ~last.flag
    /\ store[LastPath].data = Corrupt

\* C10: on a cache miss get_or_fetch runs the fetcher exactly once, and if
\* the fetcher returns it hands the fetched series to cache.set and returns
\* it, also when that write fails.
C10_MissFetchesOnceAndReturns ==
    (last.op = "get_or_fetch" /\ ~(last.fresh /\ last.readable))
        => /\ last.calls = 1
           /\ last.srck # "none"
           /\ last.srck = "ret"
                => /\ last.kind = "ret"
                   /\ last.val = last.fetched
                   /\ last.wrote
                   /\ last.arg = last.fetched

C10_Witness ==
    /\ last.op = "get_or_fetch"
    /\ ~last.fresh
    /\ last.srck = "ret"
    /\ last.wfail
    /\ ~last.wret
    /\ last.val = last.fetched
    /\ last.val \in Series

\* C11: when the fetcher built on YFinanceProvider.fetch_ohlcv fails inside
\* get_or_fetch, the error reaches the caller with a message that names the
\* failing symbol, the fetcher ran once, and cache.set was not called.
C11_SourceFailurePropagatesWrapped ==
    (/\ last.op = "get_or_fetch"
     /\ last.srck = "exc"
     /\ last.msg \in {StartAfterEnd, CouldNotFetch(last.symbol)})
        => /\ last.kind = "exc"
           /\ last.msg = CouldNotFetch(last.symbol)
           /\ last.calls = 1
           /\ ~last.wrote

\* C12: an invalidate call deletes the entry of every (symbol, interval)
\* that matches its arguments (an omitted argument matches everything) and
\* leaves the entry of every other (symbol, interval) as it was.
C12_InvalidateExact ==
    [][last'.op = "invalidate"
        => \A s \in InvSymbols, i \in Intervals :
              LET f == _get_cache_path(s, i)
                  matches == /\ last'.symbol \in {<<>>, s}
                             /\ last'.interval \in {<<>>, i}
              IN  IF matches THEN store'[f] = NoFile
                  ELSE store'[f] = store[f]]_vars

(***************************************************************************)
(* SignalGenerator: evaluate_conditions, calculate_strength,               *)
(* generate_signal, Signal.to_dict and generate_signals_batch              *)
(***************************************************************************)
\* Numbers are exact. RSI and Stochastics values are whole points, MACD and
\* signal-line values are whole hundredths (even ones, so that the scaled
\* histogram is whole). An optional value is <<>> (None, NaN) or <<v>>.
MaxBatch == 2        \* the longest list handed to generate_signals_batch

Levels == {-20, 40, 50, 55, 60, 70, 130}
MacdValues == {0, 2, 300}
MacdSignalValues == {0, 2}
Thresholds == {DefaultThreshold, 60}

abs(x) == IF x < 0 THEN -x ELSE x
min(a, b) == IF a <= b THEN a ELSE b
isna(v) == v = <<>>

\* Mutant of evaluate_conditions: a value equal to its threshold or
\* reference counts as bullish.
evaluate_conditions_inclusive(rsi, stoch, macd, macd_signal) ==
    IF rsi >= rsi_threshold /\ stoch >= stoch_threshold /\ macd >= macd_signal
    THEN [type |-> "BUY",
          reasons |-> <<"RSI > threshold", "Stoch > threshold",
                        "MACD > Signal">>]
    ELSE IF rsi < rsi_threshold /\ stoch < stoch_threshold
            /\ macd < macd_signal
    THEN [type |-> "SELL",
          reasons |-> <<"RSI < threshold", "Stoch < threshold",
                        "MACD < Signal">>]
    ELSE [type |-> "NEUTRAL",
          reasons |-> <<"RSI neutral", "Stoch neutral", "MACD bearish">>]

evaluate_conditions(rsi, stoch, macd, macd_signal) ==
    LET rsi_bullish == rsi > rsi_threshold
        stoch_bullish == stoch > stoch_threshold
        macd_bullish == macd > macd_signal
        rsi_bearish == rsi < rsi_threshold
        stoch_bearish == stoch < stoch_threshold
        macd_bearish == macd < macd_signal
    IN  IF rsi_bullish /\ stoch_bullish /\ macd_bullish
        THEN [type |-> "BUY",
              reasons |-> <<"RSI > threshold", "Stoch > threshold",
                            "MACD > Signal">>]
        ELSE IF rsi_bearish /\ stoch_bearish /\ macd_bearish
        THEN [type |-> "SELL",
              reasons |-> <<"RSI < threshold", "Stoch < threshold",
                            "MACD < Signal">>]
        ELSE [type |-> "NEUTRAL",
              reasons |-> <<IF rsi_bullish THEN "RSI bullish"
                            ELSE IF rsi_bearish THEN "RSI bearish"
                            ELSE "RSI neutral",
                            IF stoch_bullish THEN "Stoch bullish"
                            ELSE IF stoch_bearish THEN "Stoch bearish"
                            ELSE "Stoch neutral",
                            IF macd_bullish THEN "MACD bullish"
                            ELSE "MACD bearish">>]

\* Mutant of calculate_strength: the component strengths are not capped.
calculate_strength_uncapped(signal_type, rsi, stoch, macd, macd_signal) ==
    IF signal_type = "NEUTRAL" THEN 0
    ELSE abs(rsi - 50) * 2 + abs(stoch - 50) * 2
            + (abs(macd - macd_signal) * 50) \div 100

\* Mutant of calculate_strength: the MACD histogram does not count.
calculate_strength_without_macd(signal_type, rsi, stoch, macd, macd_signal) ==
    IF signal_type = "NEUTRAL" THEN 0
    ELSE min(min(abs(rsi - 50), 50) * 2 + min(abs(stoch - 50), 50) * 2, 300)

\* calculate_strength, as the sum of the three component strengths capped
\* at 300: three times the value the source returns (its "/ 3" is the
\* denominator of the result).
calculate_strength(signal_type, rsi, stoch, macd, macd_signal) ==
    IF signal_type = "NEUTRAL" THEN 0
    ELSE LET rsi_strength == min(abs(rsi - 50), 50) * 2
             stoch_strength == min(abs(stoch - 50), 50) * 2
             macd_hist == abs(macd - macd_signal)
             macd_strength == min((macd_hist * 50) \div 100, 100)
         IN  min(rsi_strength + stoch_strength + macd_strength, 300)

\* A price frame as generate_signal sees it: without rows, without a close
\* column (the indicator engine raises KeyError), or with rows, of which
\* only the latest row's four indicator values matter.
Optional(S) == {<<>>} \cup {<<v>> : v \in S}
EmptyFrame == [kind |-> "empty", rsi |-> <<>>, stoch |-> <<>>, macd |-> <<>>,
               macd_signal |-> <<>>]
NoCloseFrame == [kind |-> "no_close", rsi |-> <<>>, stoch |-> <<>>,
                 macd |-> <<>>, macd_signal |-> <<>>]
Frames ==
    {EmptyFrame, NoCloseFrame}
        \cup [kind : {"rows"}, rsi : Optional(Levels), stoch : Optional(Levels),
              macd : Optional(MacdValues),
              macd_signal : Optional(MacdSignalValues)]

\* Mutant of insufficient_data_signal: a missing value is replaced by the
\* midpoint.
insufficient_data_signal_defaults(df) ==
    [kind |-> "ret", msg |-> "", type |-> "NEUTRAL", strength |-> 0,
     rsi |-> IF isna(df.rsi) THEN <<50>> ELSE df.rsi,
     stoch |-> IF isna(df.stoch) THEN <<50>> ELSE df.stoch,
     macd |-> IF isna(df.macd) THEN <<0>> ELSE df.macd,
     macd_signal |-> IF isna(df.macd_signal) THEN <<0>> ELSE df.macd_signal,
     reason |-> <<"Insufficient data for indicators">>]

\* The Signal generate_signal returns when a latest value is NaN: the
\* values present are kept, the others are None.
insufficient_data_signal(df) ==
    [kind |-> "ret", msg |-> "", type |-> "NEUTRAL", strength |-> 0,
     rsi |-> df.rsi, stoch |-> df.stoch, macd |-> df.macd,
     macd_signal |-> df.macd_signal,
     reason |-> <<"Insufficient data for indicators">>]

\* Mutant of iloc_last: the oldest row is read instead of the latest.
iloc_first(df) ==
    IF "earlier" \in DOMAIN df /\ df.earlier # <<>> THEN df.earlier[1]
    ELSE [rsi |-> df.rsi, stoch |-> df.stoch, macd |-> df.macd,
          macd_signal |-> df.macd_signal]

\* df.iloc[-1] and the four latest.get(...): the indicator values of the
\* last row. The rows before it (earlier, where a frame has them) are not
\* read.
iloc_last(df) ==
    [rsi |-> df.rsi, stoch |-> df.stoch, macd |-> df.macd,
     macd_signal |-> df.macd_signal]

\* generate_signal: kind "ret" with the Signal, or "exc" with the message.
\* strength is in thirds of a point; reason is the list of parts that the
\* source joins with " | ".
generate_signal(df) ==
    LET neutral == [kind |-> "ret", msg |-> "", type |-> "NEUTRAL",
                    strength |-> 0, rsi |-> <<>>, stoch |-> <<>>,
                    macd |-> <<>>, macd_signal |-> <<>>,
                    reason |-> <<"No data">>]
        latest == iloc_last(df)
    IN  IF df.kind = "empty" THEN neutral
        ELSE IF df.kind = "no_close"
        THEN [neutral EXCEPT !.kind = "exc", !.msg = "'close'"]
        ELSE IF isna(latest.rsi) \/ isna(latest.stoch) \/ isna(latest.macd)
                \/ isna(latest.macd_signal)
        THEN insufficient_data_signal(latest)
        ELSE LET e == evaluate_conditions(latest.rsi[1], latest.stoch[1],
                                          latest.macd[1],
                                          latest.macd_signal[1])
             IN  [neutral EXCEPT
                     !.type = e.type,
                     !.strength = calculate_strength(e.type, latest.rsi[1],
                                      latest.stoch[1], latest.macd[1],
                                      latest.macd_signal[1]),
                     !.rsi = latest.rsi, !.stoch = latest.stoch,
                     !.macd = latest.macd,
                     !.macd_signal = latest.macd_signal,
                     !.reason = e.reasons]

\* "round(x, n) if x else None": None and 0 are both falsy.
round_if_truthy(v) == IF v = <<>> \/ v = <<0>> THEN <<>> ELSE v

\* Signal.to_dict; strength is round(strength, 1) in tenths of a point (a
\* number of thirds is never half-way between two tenths).
to_dict(s) ==
    [signal |-> s.type, strength |-> (20 * s.strength + 3) \div 6,
     rsi |-> round_if_truthy(s.rsi), stoch |-> round_if_truthy(s.stoch),
     macd |-> round_if_truthy(s.macd),
     macd_signal |-> round_if_truthy(s.macd_signal), reason |-> s.reason]

\* dict.get(key, default)
dict_get(d, key, default) == IF key \in DOMAIN d THEN d[key] ELSE default

\* The data of a scan result for the batch: None, or a frame.
NoneFrame == [kind |-> "none", rsi |-> <<>>, stoch |-> <<>>, macd |-> <<>>,
              macd_signal |-> <<>>]
BuyFrame == [kind |-> "rows", rsi |-> <<55>>, stoch |-> <<70>>,
             macd |-> <<2>>, macd_signal |-> <<0>>]
BatchData == {NoneFrame, BuyFrame, NoCloseFrame}
BatchErrors == {None, "", "boom"}

\* Scan results: the dicts of the scanner, and dicts without an error key.
ScanResultDicts ==
    [symbol : Symbols, data : BatchData, error : BatchErrors]
        \cup [symbol : Symbols, data : {NoneFrame}]

\* Mutant of batch_record: only a missing data field makes an error
\* record.
batch_record_ignores_error(result) ==
    LET symbol == dict_get(result, "symbol", <<>>)
        data == dict_get(result, "data", NoneFrame)
    IN  IF data.kind = "none"
        THEN [symbol |-> symbol, signal |-> "ERROR",
              error |-> dict_get(result, "error", "No data")]
        ELSE LET g == generate_signal(data)
             IN  IF g.kind = "exc"
                 THEN [symbol |-> symbol, signal |-> "ERROR", error |-> g.msg]
                 ELSE [symbol |-> symbol] @@ to_dict(g)

\* The record generate_signals_batch appends for one scan result.
batch_record(result) ==
    LET symbol == dict_get(result, "symbol", <<>>)
        data == dict_get(result, "data", NoneFrame)
        error == dict_get(result, "error", None)
    IN  IF data.kind = "none" \/ error \notin {None, ""}
        THEN [symbol |-> symbol, signal |-> "ERROR",
              error |-> dict_get(result, "error", "No data")]
        ELSE LET g == generate_signal(data)
             IN  IF g.kind = "exc"
                 THEN [symbol |-> symbol, signal |-> "ERROR", error |-> g.msg]
                 ELSE [symbol |-> symbol] @@ to_dict(g)

\* Mutant of generate_signals_batch: a frame the generator fails on adds
\* no record.
RECURSIVE generate_signals_batch_drops_failures(_)
generate_signals_batch_drops_failures(rs) ==
    IF rs = <<>> THEN <<>>
    ELSE (IF batch_record(Head(rs)).signal = "ERROR"
             /\ dict_get(Head(rs), "data", NoneFrame).kind = "no_close"
             /\ dict_get(Head(rs), "error", None) \in {None, ""}
          THEN <<>> ELSE <<batch_record(Head(rs))>>)
         \o generate_signals_batch_drops_failures(Tail(rs))

RECURSIVE generate_signals_batch(_)
generate_signals_batch(rs) ==
    IF rs = <<>> THEN <<>>
    ELSE <<batch_record(Head(rs))>> \o generate_signals_batch(Tail(rs))

(***************************************************************************)
(* SpecSignal: calls of the SignalGenerator                                *)
(***************************************************************************)
\* The generator keeps no state between calls: every behaviour is one call
\* on a generator with the configured thresholds.
InitSignal ==
    /\ rsi_threshold \in Thresholds
    /\ stoch_threshold \in Thresholds
    /\ signal = NoSignal
    /\ scan_results = <<>>
    /\ signals = <<>>
    /\ store = [f \in Files |-> NoFile]
    /\ now = 0
    /\ enabled = TRUE
    /\ ttl_arg = GivenTtl(ConfiguredTtl)
    /\ ttl_minutes = ConfiguredTtl
    /\ writers = NoWriters
    /\ last = NoCall
    /\ InitScanIdle

EvaluateConditions(rsi, stoch, macd, macd_signal) ==
    LET e == evaluate_conditions(rsi, stoch, macd, macd_signal)
    IN  /\ signal = NoSignal
        /\ signal' = [op |-> "evaluate_conditions", rsi |-> rsi,
                      stoch |-> stoch, macd |-> macd,
                      macd_signal |-> macd_signal, type |-> e.type,
                      reasons |-> e.reasons]
        /\ UNCHANGED <<rsi_threshold, stoch_threshold, scan_results, signals>>
        /\ UNCHANGED <<cacheVars, last, scanVars>>

GenerateSignal(df) ==
    /\ signal = NoSignal
    /\ signal' = [op |-> "generate_signal", df |-> df,
                  out |-> generate_signal(df)]
    /\ UNCHANGED <<rsi_threshold, stoch_threshold, scan_results, signals>>
    /\ UNCHANGED <<cacheVars, last, scanVars>>

GenerateSignalsBatch(rs) ==
    /\ signal = NoSignal
    /\ scan_results' = rs
    /\ signals' = generate_signals_batch(rs)
    /\ signal' = [op |-> "generate_signals_batch"]
    /\ UNCHANGED <<rsi_threshold, stoch_threshold>>
    /\ UNCHANGED <<cacheVars, last, scanVars>>

NextSignal ==
    \/ \E r \in Levels, s \in Levels, m \in MacdValues,
          ms \in MacdSignalValues : EvaluateConditions(r, s, m, ms)
    \/ \E df \in Frames : GenerateSignal(df)
    \/ \E rs \in SeqsUpTo(ScanResultDicts, MaxBatch) : GenerateSignalsBatch(rs)

SpecSignal == InitSignal /\ [][NextSignal]_vars

(***************************************************************************)
(* Signal claims                                                           *)
(***************************************************************************)
\* C13: evaluate_conditions returns BUY exactly when all three values are
\* strictly above their threshold / reference, SELL exactly when all three
\* are strictly below, NEUTRAL otherwise; from a BUY snapshot, replacing one
\* value by one that is not above its threshold / reference gives NEUTRAL.
C13_Unanimity ==
    signal.op = "evaluate_conditions"
        => LET up == /\ signal.rsi > rsi_threshold
                     /\ signal.stoch > stoch_threshold
                     /\ signal.macd > signal.macd_signal
               down == /\ signal.rsi < rsi_threshold
                       /\ signal.stoch < stoch_threshold
                       /\ signal.macd < signal.macd_signal
           IN  /\ signal.type = (IF up THEN "BUY" ELSE IF down THEN "SELL"
                                 ELSE "NEUTRAL")
               /\ ~(up /\ down)
               /\ signal.type = "BUY" =>
                    /\ \A r \in Levels : r <= rsi_threshold =>
                          evaluate_conditions(r, signal.stoch, signal.macd,
                              signal.macd_signal).type = "NEUTRAL"
                    /\ \A s \in Levels : s <= stoch_threshold =>
                          evaluate_conditions(signal.rsi, s, signal.macd,
                              signal.macd_signal).type = "NEUTRAL"
                    /\ \A m \in MacdValues : m <= signal.macd_signal =>
                          evaluate_conditions(signal.rsi, signal.stoch, m,
                              signal.macd_signal).type = "NEUTRAL"

C13_Witness ==
    /\ signal.op = "evaluate_conditions"
    /\ signal.type = "BUY"
    /\ rsi_threshold # DefaultThreshold
    /\ signal.macd_signal > 0

\* C14: the rationale of a NEUTRAL outcome has one entry per sub-signal,
\* saying up, down or flat, flat meaning equal to the threshold / reference;
\* a MACD equal to its signal line is reported flat.
C14_NeutralRationale ==
    (signal.op = "evaluate_conditions" /\ signal.type = "NEUTRAL")
        => /\ Len(signal.reasons) = 3
           /\ signal.reasons[1] =
                (IF signal.rsi > rsi_threshold THEN "RSI bullish"
                 ELSE IF signal.rsi < rsi_threshold THEN "RSI bearish"
                 ELSE "RSI neutral")
           /\ signal.reasons[2] =
                (IF signal.stoch > stoch_threshold THEN "Stoch bullish"
                 ELSE IF signal.stoch < stoch_threshold THEN "Stoch bearish"
                 ELSE "Stoch neutral")
           /\ signal.reasons[3] =
                (IF signal.macd > signal.macd_signal THEN "MACD bullish"
                 ELSE IF signal.macd < signal.macd_signal THEN "MACD bearish"
                 ELSE "MACD neutral")

\* The latest row of the frame lacks at least one of the four values.
LatestValueAbsent(df) ==
    /\ df.kind = "rows"
    /\ isna(df.rsi) \/ isna(df.stoch) \/ isna(df.macd) \/ isna(df.macd_signal)

NeutralStrengthZero(out) ==
    /\ out.kind = "ret"
    /\ out.type = "NEUTRAL"
    /\ out.strength = 0

C16_StrengthInRange ==
    (signal.op = "generate_signal" /\ signal.out.kind = "ret")
        => /\ signal.out.strength >= 0
           /\ signal.out.strength <= 3 * 100

C16_Witness ==
    /\ signal.op = "generate_signal"
    /\ signal.df.rsi = <<130>>
    /\ signal.df.stoch = <<130>>
    /\ signal.df.macd = <<300>>
    /\ signal.out.type = "BUY"
    /\ signal.out.strength = 3 * 100

\* C17: the strength of a BUY or SELL signal is the average of the RSI
\* value's distance from rsi_threshold and the Stochastics value's distance
\* from stoch_threshold, each capped at 50 and doubled, and of the MACD
\* histogram magnitude times 50 capped at 100.
C17_StrengthFromThresholds ==
    (signal.op = "generate_signal" /\ signal.out.kind = "ret"
     /\ signal.out.type \in {"BUY", "SELL"})
        => signal.out.strength =
              min(abs(signal.df.rsi[1] - rsi_threshold), 50) * 2
              + min(abs(signal.df.stoch[1] - stoch_threshold), 50) * 2
              + min((abs(signal.df.macd[1] - signal.df.macd_signal[1]) * 50)
                        \div 100, 100)

\* C18: generate_signals_batch returns one record per scan result, at the
\* same position and with the same symbol, whether the result carries data,
\* an error, or a frame the generator fails on.
C18_BatchOneToOne ==
    signal.op = "generate_signals_batch"
        => /\ Len(signals) = Len(scan_results)
           /\ \A i \in 1..Len(scan_results) :
                 signals[i].symbol = scan_results[i].symbol

C18_Witness ==
    /\ signal.op = "generate_signals_batch"
    /\ Len(scan_results) = MaxBatch
    /\ scan_results[1].symbol # scan_results[2].symbol
    /\ scan_results[1].data = NoCloseFrame
    /\ "error" \in DOMAIN scan_results[1] /\ scan_results[1].error = None
    /\ "error" \in DOMAIN scan_results[2] /\ scan_results[2].error = "boom"
    /\ signals[1].signal = "ERROR"

\* A scan result that carries an error: a non-empty message, or an empty
\* one next to missing data.
CarriesError(result) ==
    /\ "error" \in DOMAIN result
    /\ result.error # None
    /\ result.error # "" \/ result.data = NoneFrame

\* C19: a scan result carrying an error gives exactly one record, with
\* signal "ERROR", the error message unchanged, and no other field than
\* symbol, signal and error.
C19_BatchPassThrough ==
    signal.op = "generate_signals_batch"
        => /\ Len(signals) = Len(scan_results)
           /\ \A i \in 1..Len(scan_results) :
                 CarriesError(scan_results[i])
                    => /\ signals[i].signal = "ERROR"
                       /\ signals[i].error = scan_results[i].error
                       /\ DOMAIN signals[i] = {"symbol", "signal", "error"}

C19_Witness ==
    /\ signal.op = "generate_signals_batch"
    /\ Len(scan_results) = 1
    /\ scan_results[1].data = BuyFrame
    /\ "error" \in DOMAIN scan_results[1] /\ scan_results[1].error = "boom"
    /\ signals[1].signal = "ERROR"
    /\ signals[1].error = "boom"

(***************************************************************************)
(* Pacing claim                                                            *)
(***************************************************************************)
\* C20: between the collection of a completed unit of work and the end of
\* the pause that follows it, no unit of work starts a source fetch.
C20_NoFetchStartsDuringPause ==
    [][pc = "pause"
        => \A t \in Tasks : task'[t].st = "fetch" => task[t].st = "fetch"]_vars

(***************************************************************************)
(* Claims about the order and the entry points of a scan                   *)
(***************************************************************************)
\* C21: results are appended in completion order: when a future's result is
\* appended, no future that completed before it is still waiting to be
\* collected.
C21_CompletionOrder ==
    [][\A t \in Tasks :
          (task[t].st = "done" /\ task'[t].st = "collected")
              => \A u \in Tasks :
                    task[u].st = "done" => task[t].seq <= task[u].seq]_vars

(***************************************************************************)
(* SpecUniverse: scan_universe and scan_symbols for every max_concurrent   *)
(***************************************************************************)
\* A preset universe is a static non-empty list (shortened here).
Presets == {"sp500", "nasdaq100", "dow30"}
PresetTickers == <<SymA, <<"B">>>>

\* A watchlist file: missing, not loadable as a mapping with a tickers
\* list, or the tickers it lists.
WatchlistFiles ==
    [state : {"missing", "malformed"}, tickers : {<<>>}]
        \cup [state : {"ok"}, tickers : SeqsUpTo(Symbols, MaxSymbols)]

\* [t.upper() for t in tickers]
RECURSIVE upper_all(_)
upper_all(tickers) ==
    IF tickers = <<>> THEN <<>>
    ELSE <<upper_str(Head(tickers))>> \o upper_all(Tail(tickers))

_load_watchlist_file(file) ==
    IF file.state = "missing" THEN <<>>
    ELSE IF file.state = "malformed" THEN <<>>
    ELSE upper_all(file.tickers)

get_tickers(u) ==
    IF u.name \in Presets THEN PresetTickers ELSE _load_watchlist_file(u.file)

Universes ==
    [name : {"dow30"}, file : {NoFileNeeded}]
        \cup [name : {"mylist"}, file : WatchlistFiles]

InitUniverse ==
    /\ universe \in Universes \cup {NoUniverse}
    /\ symbols \in IF universe = NoUniverse THEN {<<>>, <<SymA>>} ELSE {<<>>}
    /\ pc = IF universe = NoUniverse THEN "start" ELSE "scan_universe"
    /\ max_concurrent \in 0..MaxWorkers
    /\ lookback_days = DefaultLookback
    /\ enabled \in BOOLEAN
    /\ store = [f \in Files |-> NoFile]
    /\ now = MaxTtl
    /\ ttl_arg = GivenTtl(ConfiguredTtl)
    /\ ttl_minutes = ConfiguredTtl
    /\ writers = NoWriters
    /\ last = NoCall
    /\ submitted = 0
    /\ task = <<>>
    /\ early = {}
    /\ waiting = <<>>
    /\ results = <<>>
    /\ InitSignalIdle

\* scan_universe up to its return of [] or its call of scan_symbols.
ScanUniverse ==
    /\ pc = "scan_universe"
    /\ LET tickers == get_tickers(universe)
       IN  /\ symbols' = tickers
           /\ pc' = IF tickers = <<>> THEN "returned" ELSE "start"
    /\ UNCHANGED <<sigVars, universe, max_concurrent, lookback_days, submitted,
                   task, early, waiting, results, last>>
    /\ UNCHANGED cacheVars

NextUniverse == ScanUniverse \/ NextScan

SpecUniverse == InitUniverse /\ [][NextUniverse]_vars

\* C22: a scan of an empty symbol list does not raise, whatever
\* max_concurrent is configured.
C22_EmptyListNeverRaises == symbols = <<>> => pc # "raised"

\* C24: scan_universe on a universe name that resolves to no watchlist
\* file, or to a malformed one, raises; it does not return a result list.
C24_UnresolvedUniverseIsFatal ==
    (universe.name = "mylist"
     /\ universe.file.state \in {"missing", "malformed"})
        => pc # "returned"

(***************************************************************************)
(* Termination claims                                                      *)
(***************************************************************************)
\* C23: scan_symbols eventually returns even if a source call never returns
\* (the call is timed out and its unit of work ends as a failed result).
C23_HungSourceTimesOut == <>(pc = "returned")

\* C29: if every source call returns or raises and the threads are
\* scheduled fairly, scan_symbols eventually returns, and when it has
\* returned every submitted unit of work has completed and been collected.
C29_ScanTerminatesCollected ==
    /\ <>(pc = "returned")
    /\ [](pc = "returned"
            => /\ Len(task) = Len(symbols)
               /\ Len(results) = Len(symbols)
               /\ \A t \in Tasks : task[t].st = "collected")

C29_Witness ==
    /\ pc = "returned"
    /\ Len(symbols) >= 2
    /\ \E t, u \in Tasks : task[t].src = "ret" /\ task[u].src = "exc"


(***************************************************************************)
(* Fetches per cache key, checked under SpecScan                           *)
(***************************************************************************)
\* The unit of work t is between the start of its source call and the end
\* of its cache write.
InFlight(t) == task[t].st \in {"fetch", "store"}

\* C26: within one scan_symbols run at most one fetch is in flight per
\* (symbol, interval) cache key at any time, for every input list, lists
\* that name a symbol more than once included.
C26_OneFetchPerKey ==
    \A t, u \in Tasks :
        (/\ t # u
         /\ InFlight(t)
         /\ InFlight(u))
            => _get_cache_path(task[t].symbol, ScanInterval)
                    # _get_cache_path(task[u].symbol, ScanInterval)


(***************************************************************************)
(* Order of the steps of one unit of work, checked under SpecScan          *)
(***************************************************************************)
\* C30: within one unit of work the steps are sequential. The source call
\* starts only from the cache read, and only when that read missed; the
\* cache write starts only when the source call has returned its value; the
\* cache directory changes only in the write of a unit of work that has its
\* fetched series in hand, and that step ends the unit of work.
C30_StepsSequential ==
    [][/\ \A t \in Tasks :
            /\ (task[t].st # "fetch" /\ task'[t].st = "fetch")
                    => /\ task[t].st = "run"
                       /\ get(task[t].symbol, ScanInterval).kind = "ret"
                       /\ get(task[t].symbol, ScanInterval).val = None
            /\ (task[t].st # "store" /\ task'[t].st = "store")
                    => /\ task[t].st = "fetch"
                       /\ task'[t].src = "ret"
                       /\ task'[t].data = task'[t].fetched
            /\ (task[t].st # "done" /\ task'[t].st = "done"
                    /\ task'[t].src = "ret")
                    => task[t].st = "store"
       /\ (store' # store)
            => \E t \in Tasks :
                    /\ task[t].st = "store"
                    /\ task[t].src = "ret"
                    /\ task[t].data = task[t].fetched
                    /\ task'[t].st = "done"
                    /\ \A f \in Files :
                            f # _get_cache_path(task[t].symbol, ScanInterval)
                                => store'[f] = store[f]]_vars

\* A scan has returned in which a unit of work missed the cache, fetched a
\* series and wrote it.
C30_Witness ==
    /\ pc = "returned"
    /\ \E t \in Tasks :
            /\ task[t].src = "ret"
            /\ task[t].fetched # None
            /\ store[_get_cache_path(task[t].symbol, ScanInterval)].data
                    = task[t].fetched


(***************************************************************************)
(* What changes the cache directory, checked under SpecCache               *)
(***************************************************************************)
\* The call just made only reads the cache: is_fresh, get, get_stats, a
\* get_or_fetch answered from the cache, or a get_or_fetch whose source
\* call raised.
ReadOnlyCall(c) ==
    \/ c.op \in {"is_fresh", "get", "get_stats"}
    \/ c.op = "get_or_fetch" /\ (c.calls = 0 \/ c.srck = "exc")

\* C28: is_fresh, get, get_stats, a get_or_fetch that hits the cache and a
\* get_or_fetch whose source call fails leave every entry, stale ones
\* included, and every write timestamp as they were.
C28_ReadsLeaveEntries ==
    [][ReadOnlyCall(last') => store' = store]_vars

\* A get_or_fetch found its entry stale, its source call raised, and the
\* stale entry is still there.
C28_Witness ==
    /\ last.op = "get_or_fetch"
    /\ last.srck = "exc"
    /\ last.readable
    /\ ~last.fresh
    /\ store[_get_cache_path(last.symbol, last.interval)].data \in Series


(***************************************************************************)
(* SpecSignalTwice: two calls of generate_signal on one generator          *)
(***************************************************************************)
MaxEarlier == 1

\* The indicator values of one row.
HistoryRows ==
    [rsi : Optional({40, 70}), stoch : {<<40>>, <<70>>},
     macd : {<<0>>, <<2>>}, macd_signal : {<<0>>, <<2>>}]
EarlierRows ==
    {r \in HistoryRows : r.rsi # <<>> /\ r.macd = <<2>> /\ r.macd_signal = <<0>>}

\* Frames with the rows before the latest one: nothing, or frames of up to
\* 1 + MaxEarlier rows.
HistoryFrames ==
    {EmptyFrame}
        \cup [kind : {"rows"}, rsi : Optional({40, 70}),
              stoch : {<<40>>, <<70>>}, macd : {<<0>>, <<2>>},
              macd_signal : {<<0>>, <<2>>},
              earlier : SeqsUpTo(EarlierRows, MaxEarlier)]

\* A second call of generate_signal on the same SignalGenerator.
GenerateSignalAgain(df) ==
    /\ signal.op = "generate_signal"
    /\ signal' = [op |-> "generate_signal_again", first |-> signal,
                  df |-> df, out |-> generate_signal(df)]
    /\ UNCHANGED <<rsi_threshold, stoch_threshold, scan_results, signals>>
    /\ UNCHANGED <<cacheVars, last, scanVars>>

NextSignalTwice ==
    \/ \E df \in HistoryFrames : GenerateSignal(df)
    \/ \E df \in HistoryFrames : GenerateSignalAgain(df)

SpecSignalTwice == InitSignal /\ [][NextSignalTwice]_vars

\* The two frames have rows and the same latest indicator values.
SameLatest(a, b) ==
    /\ a.kind = "rows"
    /\ b.kind = "rows"
    /\ a.rsi = b.rsi
    /\ a.stoch = b.stoch
    /\ a.macd = b.macd
    /\ a.macd_signal = b.macd_signal

\* C27: two calls of generate_signal on frames with the same latest
\* indicator values return the same type, strength and reason, whatever the
\* earlier rows of either frame and whatever was evaluated before.
C27_PureInLatestSnapshot ==
    (signal.op = "generate_signal_again"
     /\ SameLatest(signal.first.df, signal.df))
        => /\ signal.out.kind = signal.first.out.kind
           /\ signal.out.type = signal.first.out.type
           /\ signal.out.strength = signal.first.out.strength
           /\ signal.out.reason = signal.first.out.reason

\* Two calls on frames with the same latest values but different earlier
\* rows, the latest values differing from the oldest row of the second;
\* both returned BUY.
C27_Witness ==
    /\ signal.op = "generate_signal_again"
    /\ SameLatest(signal.first.df, signal.df)
    /\ signal.first.df.earlier # signal.df.earlier
    /\ signal.df.earlier # <<>>
    /\ signal.df.earlier[1].rsi # signal.df.rsi
    /\ signal.out.type = "BUY"
    /\ signal.out.strength > 0


(***************************************************************************)
(* SpecSetConcurrent: set and get on one key from several threads or       *)
(* processes that share the cache directory                                *)
(***************************************************************************)
\* Another writer is inside its write of the same file.
still_open(p) ==
    \E q \in Writers \ {p} :
        writers[q].st = "writing" /\ writers[q].path = writers[p].path

\* What the file can hold when writer p closes it. A write that had the
\* file to itself leaves its series. Writes of different series that
\* overlapped have each put their bytes at their own offsets of the one
\* file: it holds either series or a mix of both; while another writer is
\* still inside, the file may be incomplete.
close_outcomes(p) ==
    {writers[p].data} \cup writers[p].others
        \cup (IF still_open(p) \/ writers[p].others # {} THEN {Corrupt}
              ELSE {})

\* CacheManager.set up to the start of data.to_parquet(cache_path): the
\* file is opened for writing in place, which creates or truncates it.
OpenForWrite(p, data) ==
    LET path == _get_cache_path(SymA, I1d)
        inside == {q \in Writers \ {p} :
                        writers[q].st = "writing" /\ writers[q].path = path}
    IN  /\ enabled
        /\ writers[p].st = "idle"
        /\ store' = [store EXCEPT ![path] = [data |-> Corrupt, mtime |-> now]]
        /\ writers' =
                [q \in Writers |->
                    IF q = p
                    THEN [st |-> "writing", path |-> path, data |-> data,
                          others |-> {writers[r].data : r \in inside} \ {data}]
                    ELSE IF q \in inside
                    THEN [writers[q] EXCEPT !.others = @ \cup ({data} \ {writers[q].data})]
                    ELSE writers[q]]
        /\ last' = [Call("set", SymA, I1d) EXCEPT
                        !.time = now, !.arg = data]
        /\ UNCHANGED <<now, enabled, ttl_minutes, ttl_arg>>
        /\ UNCHANGED <<scanVars, sigVars>>

\* data.to_parquet(cache_path) writes the rest and closes the file; set
\* returns True.
CloseWrite(p, content) ==
    /\ writers[p].st = "writing"
    /\ content \in close_outcomes(p)
    /\ store' = [store EXCEPT ![writers[p].path] =
                                    [data |-> content, mtime |-> now]]
    /\ writers' = [writers EXCEPT ![p].st = "closed"]
    /\ last' = [Call("set", SymA, I1d) EXCEPT
                    !.time = now, !.flag = TRUE, !.arg = writers[p].data]
    /\ UNCHANGED <<now, enabled, ttl_minutes, ttl_arg>>
    /\ UNCHANGED <<scanVars, sigVars>>

InitSetConcurrent ==
    /\ store \in {[f \in Files |-> NoFile],
                  [f \in Files |->
                        IF f = _get_cache_path(SymA, I1d)
                        THEN [data |-> "s1", mtime |-> 0] ELSE NoFile]}
    /\ now = 0
    /\ enabled = TRUE
    /\ ttl_arg = GivenTtl(ConfiguredTtl)
    /\ ttl_minutes = ConfiguredTtl
    /\ writers = NoWriters
    /\ last = NoCall
    /\ InitScanIdle
    /\ InitSignalIdle

NextSetConcurrent ==
    \/ Tick
    \/ \E p \in Writers, d \in Series : OpenForWrite(p, d)
    \/ \E p \in Writers, c \in Series \cup {Corrupt} : CloseWrite(p, c)
    \/ Get(SymA, I1d)

SpecSetConcurrent == InitSetConcurrent /\ [][NextSetConcurrent]_vars

\* The series whose set on file f has returned.
Written(f) ==
    {writers[p].data : p \in {q \in Writers : writers[q].st = "closed"
                                              /\ writers[q].path = f}}

\* C25: a get that runs concurrently with sets on its key returns the
\* complete previous series, the complete new series or nothing, never a
\* damaged one; and once concurrent sets on a key have all returned, the
\* entry is exactly one of the series they wrote.
C25_AtomicReplacement ==
    /\ last.op = "get" => last.val \in Series \cup {None}
    /\ \A f \in Files :
            (/\ Written(f) # {}
             /\ \A p \in Writers : writers[p].st # "writing")
                => store[f].data \in Written(f)


(***************************************************************************)
(* SpecKeys: set and get on symbols that differ in a special character     *)
(***************************************************************************)
\* SymDot, and the same letters with an underscore in place of the dot.
KeySymbols == {SymA, SymDot, <<"A", "_", "b">>}

NextKeys ==
    \/ \E s \in KeySymbols, i \in Intervals, d \in Series : Set(s, i, d, "ok")
    \/ \E s \in KeySymbols, i \in Intervals : Get(s, i)

SpecKeys == InitInvalidate /\ [][NextKeys]_vars

\* C31: cache keys are injective. A set for one (symbol, interval) pair
\* leaves the entry of every other pair as it was, also when the symbols
\* differ only in '.', '/', '_' or letter case.
C31_KeysInjective ==
    [][last'.op = "set"
        => \A s \in KeySymbols, i \in Intervals :
                <<s, i>> # <<last'.symbol, last'.interval>>
                    => store'[_get_cache_path(s, i)]
                            = store[_get_cache_path(s, i)]]_vars


(***************************************************************************)
(* SpecTtl: CacheManagers built with different TTL mappings                *)
(***************************************************************************)
\* The mappings passed to the constructor: none, the empty one, one that
\* lists the daily interval, one that lists the weekly interval only.
InitTtl ==
    /\ store = [f \in Files |-> NoFile]
    /\ now = 0
    /\ enabled = TRUE
    /\ ttl_arg \in {NoTtlGiven, GivenTtl(<<>>), GivenTtl(ConfiguredTtl),
                    GivenTtl([i \in {I1wk} |-> 1])}
    /\ ttl_minutes = init_ttl(ttl_arg)
    /\ writers = NoWriters
    /\ last = NoCall
    /\ InitScanIdle
    /\ InitSignalIdle

\* The fallback TTL goes by.
Sleep ==
    /\ now < DefaultTtl
    /\ now' = now + DefaultTtl
    /\ UNCHANGED <<store, enabled, ttl_minutes, ttl_arg, last, writers>>
    /\ UNCHANGED <<scanVars, sigVars>>

NextTtl ==
    \/ Tick
    \/ Sleep
    \/ \E s \in CacheSymbols, i \in Intervals : IsFresh(s, i)
    \/ \E s \in CacheSymbols, i \in Intervals : Set(s, i, "s1", "ok")

SpecTtl == InitTtl /\ [][NextTtl]_vars

\* The TTL of an interval under the mapping given to the CacheManager: the
\* mapping's value, or the fallback for an interval it does not list.
MappingTtl(interval) ==
    LET m == IF ttl_arg.given THEN ttl_arg.map ELSE ConfigTtl
    IN  IF interval \in DOMAIN m THEN m[interval] ELSE DefaultTtl

\* C32: is_fresh uses the TTL that the mapping given to the CacheManager
\* holds for the interval, and the fallback of 60 minutes for an interval
\* the mapping does not list, whatever the symbol and for every mapping
\* passed to the constructor, the empty one included.
C32_TtlFromMapping ==
    [][(last'.op = "is_fresh" /\ now' = now)
        => LET cache_path == _get_cache_path(last'.symbol, last'.interval)
           IN  last'.flag =
                    (/\ exists(cache_path)
                     /\ now < store[cache_path].mtime
                                + MappingTtl(last'.interval))]_vars


(***************************************************************************)
(* SpecDisabled: a CacheManager with caching disabled over a directory     *)
(* that may hold an entry written earlier                                  *)
(***************************************************************************)
InitDisabled ==
    /\ store \in {[f \in Files |-> NoFile],
                  [f \in Files |->
                        IF f = _get_cache_path(SymA, I1d)
                        THEN [data |-> "s1", mtime |-> 0] ELSE NoFile]}
    /\ now = 0
    /\ enabled = FALSE
    /\ ttl_arg = GivenTtl(ConfiguredTtl)
    /\ ttl_minutes = ConfiguredTtl
    /\ writers = NoWriters
    /\ last = NoCall
    /\ InitScanIdle
    /\ InitSignalIdle

SpecDisabled == InitDisabled /\ [][NextCache]_vars

\* C33: with caching disabled is_fresh returns False, get returns None,
\* set returns False and leaves the directory as it was, and every
\* get_or_fetch runs the source exactly once (and writes nothing).
C33_DisabledCacheIsInert ==
    /\ [](~enabled =>
            /\ last.op = "is_fresh" => ~last.flag
            /\ last.op = "get" => (last.kind = "ret" /\ last.val = None)
            /\ last.op = "set" => (last.kind = "ret" /\ ~last.flag)
            /\ last.op = "get_or_fetch" => last.calls = 1)
    /\ [][(~enabled /\ last'.op \in {"set", "get_or_fetch"})
            => store' = store]_vars

\* With caching disabled a get_or_fetch has run the source although the
\* directory holds a readable entry for the key that is within its TTL.
C33_Witness ==
    /\ ~enabled
    /\ last.op = "get_or_fetch"
    /\ last.calls = 1
    /\ last.srck = "ret"
    /\ LET cache_path == _get_cache_path(last.symbol, last.interval)
       IN  /\ store[cache_path].data \in Series
           /\ now < store[cache_path].mtime + _get_ttl(last.interval)


(***************************************************************************)
(* SpecWarm: get_or_fetch called again and again while time passes         *)
(***************************************************************************)
NextWarm ==
    \/ Tick
    \/ \E s \in CacheSymbols, i \in Intervals, w \in WriteOutcomes :
          \E src \in SourceOutcomes : GetOrFetch(s, i, src, w)

SpecWarm == InitCache /\ [][NextWarm]_vars

\* The get_or_fetch call c returned a series that the cache then held:
\* read from it, or fetched and written to it.
WarmEntry(c) ==
    /\ c.op = "get_or_fetch"
    /\ c.kind = "ret"
    /\ c.val \in Series
    /\ c.calls = 0 \/ (c.wrote /\ c.wret)

\* C34: with caching enabled, the get_or_fetch that follows one which left
\* a series in the cache returns that series without running the source
\* while the TTL has not elapsed; once it has elapsed it runs the source
\* exactly once and, the source returning and the write succeeding, the
\* entry holds the new series with the new write time. The get_or_fetch
\* that follows one whose source call raised runs the source again.
C34_WarmCache ==
    [][(/\ enabled
        /\ now' = now
        /\ last.op = "get_or_fetch"
        /\ last'.op = "get_or_fetch"
        /\ last'.symbol = last.symbol
        /\ last'.interval = last.interval)
        => LET cache_path == _get_cache_path(last.symbol, last.interval)
               within == now < store[cache_path].mtime
                                    + _get_ttl(last.interval)
           IN  /\ (WarmEntry(last) /\ within)
                    => /\ last'.calls = 0
                       /\ last'.kind = "ret"
                       /\ last'.val = last.val
                       /\ store' = store
               /\ (WarmEntry(last) /\ ~within)
                    => /\ last'.calls = 1
                       /\ (last'.srck = "ret" /\ last'.wret)
                            => store'[cache_path]
                                    = [data |-> last'.fetched, mtime |-> now]
               /\ (last.calls = 1 /\ last.srck = "exc")
                    => last'.calls = 1]_vars

\* A get_or_fetch was answered from the entry that an earlier get_or_fetch
\* wrote some minutes before.
C34_Witness ==
    /\ enabled
    /\ last.op = "get_or_fetch"
    /\ last.calls = 0
    /\ last.val \in Series
    /\ store[_get_cache_path(last.symbol, last.interval)].data = last.val
    /\ store[_get_cache_path(last.symbol, last.interval)].mtime < now


(***************************************************************************)
(* SpecStrength: generate_signal under thresholds on either side of the    *)
(* midpoint                                                                *)
(***************************************************************************)
\* Configured thresholds below, at and above the midpoint 50 from which
\* calculate_strength measures.
InitStrength ==
    /\ rsi_threshold \in Thresholds \cup {40}
    /\ stoch_threshold \in Thresholds \cup {40}
    /\ signal = NoSignal
    /\ scan_results = <<>>
    /\ signals = <<>>
    /\ store = [f \in Files |-> NoFile]
    /\ now = 0
    /\ enabled = TRUE
    /\ ttl_arg = GivenTtl(ConfiguredTtl)
    /\ ttl_minutes = ConfiguredTtl
    /\ writers = NoWriters
    /\ last = NoCall
    /\ InitScanIdle

NextStrength == \E df \in Frames : GenerateSignal(df)

SpecStrength == InitStrength /\ [][NextStrength]_vars

\* C35: a NEUTRAL signal (mixed values, an empty frame or a missing
\* indicator value) has strength exactly 0, and a BUY or SELL signal has
\* strength strictly above 0, under every configured threshold.
C35_StrengthZeroIffNeutral ==
    (signal.op = "generate_signal" /\ signal.out.kind = "ret")
        => /\ signal.out.type \in {"BUY", "SELL", "NEUTRAL"}
           /\ signal.out.type = "NEUTRAL" => signal.out.strength = 0
           /\ signal.out.type \in {"BUY", "SELL"} => signal.out.strength > 0

\* A BUY whose momentum and oscillator values sit exactly on the midpoint,
\* above thresholds configured below it.
C35_Witness ==
    /\ signal.op = "generate_signal"
    /\ signal.out.kind = "ret"
    /\ signal.out.type = "BUY"
    /\ signal.out.rsi = <<50>>
    /\ signal.out.stoch = <<50>>
    /\ rsi_threshold < 50
    /\ signal.out.strength > 0


(***************************************************************************)
(* Component values of the batch records, checked under SpecSignal         *)
(***************************************************************************)
\* The frame has rows and all four latest indicator values.
AllValuesPresent(df) ==
    /\ df.kind = "rows"
    /\ ~isna(df.rsi)
    /\ ~isna(df.stoch)
    /\ ~isna(df.macd)
    /\ ~isna(df.macd_signal)

\* C36: the record generate_signals_batch builds (through Signal.to_dict)
\* for a signal whose four indicator values are present carries all four
\* as numbers equal to the snapshot's values, also when a value is 0.
C36_RecordCarriesComponents ==
    signal.op = "generate_signals_batch"
        => \A i \in 1..Len(signals) :
                LET df == dict_get(scan_results[i], "data", NoneFrame)
                IN  (signals[i].signal # "ERROR" /\ AllValuesPresent(df))
                        => /\ signals[i].rsi = df.rsi
                           /\ signals[i].stoch = df.stoch
                           /\ signals[i].macd = df.macd
                           /\ signals[i].macd_signal = df.macd_signal


\* C37: generate_signals_batch does not raise; a scan result without data
\* and a scan result whose signal generation raises each give an ERROR
\* record with a non-empty error message, and the other results are still
\* processed (one record per result).
C37_BatchErrorsHaveMessage ==
    signal.op = "generate_signals_batch"
        => /\ Len(signals) = Len(scan_results)
           /\ \A i \in 1..Len(signals) :
                LET df == dict_get(scan_results[i], "data", NoneFrame)
                IN  (df.kind = "none" \/ generate_signal(df).kind = "exc")
                        => /\ signals[i].signal = "ERROR"
                           /\ signals[i].error \notin {None, ""}


(***************************************************************************)
(* SpecFilter: filter_by_signal on the records of a batch                  *)
(***************************************************************************)
\* signal_type.value of the enum, or signal_type.upper() of a string.
type_upper(signal_type) ==
    CASE signal_type = "buy" -> "BUY"
      [] signal_type = "sell" -> "SELL"
      [] OTHER -> signal_type

\* Mutant of filter_by_signal: the strength has to exceed min_strength.
filter_by_signal_strict(sigs, signal_type, min_strength) ==
    LET target == type_upper(signal_type)
        keep(r) == /\ dict_get(r, "signal", None) = target
                   /\ dict_get(r, "strength", 0) > min_strength
    IN  SelectSeq(sigs, keep)

\* filter_by_signal: the list comprehension over the signal dicts.
filter_by_signal(sigs, signal_type, min_strength) ==
    LET target == type_upper(signal_type)
        keep(r) == /\ dict_get(r, "signal", None) = target
                   /\ dict_get(r, "strength", 0) >= min_strength
    IN  SelectSeq(sigs, keep)

\* Scan results for a BUY, a stronger BUY, a SELL, a failed fetch and a
\* frame the indicator engine fails on.
FilterDicts ==
    {[symbol |-> SymA, data |-> BuyFrame, error |-> None],
     [symbol |-> SymB,
      data |-> [kind |-> "rows", rsi |-> <<70>>, stoch |-> <<70>>,
                macd |-> <<2>>, macd_signal |-> <<0>>],
      error |-> None],
     [symbol |-> SymA,
      data |-> [kind |-> "rows", rsi |-> <<40>>, stoch |-> <<40>>,
                macd |-> <<0>>, macd_signal |-> <<2>>],
      error |-> None],
     [symbol |-> SymB, data |-> NoneFrame, error |-> "boom"],
     [symbol |-> SymB, data |-> NoCloseFrame, error |-> None]}

FilterBySignal(signal_type, min_strength) ==
    LET out == filter_by_signal(signals, signal_type, min_strength)
    IN  /\ signal.op = "generate_signals_batch"
        /\ signal' = [op |-> "filter_by_signal", type |-> signal_type,
                      min_strength |-> min_strength, out |-> out,
                      again |-> filter_by_signal(out, signal_type,
                                                 min_strength)]
        /\ UNCHANGED <<rsi_threshold, stoch_threshold, scan_results, signals>>
        /\ UNCHANGED <<cacheVars, last, scanVars>>

NextFilter ==
    \/ \E rs \in SeqsUpTo(FilterDicts, MaxBatch) : GenerateSignalsBatch(rs)
    \* The types asked for, as enum values and as a lower-case string; the
    \* minimum strengths in tenths of a point: the default, the strength of
    \* BuyFrame's signal under the default thresholds, one beyond all.
    \/ \E t \in {"BUY", "SELL", "NEUTRAL", "ERROR", "buy"},
          m \in {0, 170, 1001} : FilterBySignal(t, m)

SpecFilter == InitSignal /\ [][NextFilter]_vars

\* The record has a strength; an ERROR record has none.
HasStrength(r) == "strength" \in DOMAIN r

\* The record has the type asked for and at least the minimum strength.
Matches(r, signal_type, min_strength) ==
    /\ r.signal = type_upper(signal_type)
    /\ HasStrength(r)
    /\ r.strength >= min_strength

RECURSIVE IsSubsequence(_, _)
IsSubsequence(a, b) ==
    IF a = <<>> THEN TRUE
    ELSE IF b = <<>> THEN FALSE
    ELSE IF Head(a) = Head(b) THEN IsSubsequence(Tail(a), Tail(b))
    ELSE IsSubsequence(a, Tail(b))

\* C38: filter_by_signal returns exactly the records of its input that
\* have the requested type and at least min_strength, in input order (of
\* the records that carry a strength: all of those and no others);
\* filtering for BUY or SELL returns no ERROR record; filtering the output
\* again with the same arguments returns the same list.
C38_FilterExact ==
    signal.op = "filter_by_signal"
        => /\ \A i \in 1..Len(signal.out) :
                    /\ signal.out[i].signal = type_upper(signal.type)
                    /\ HasStrength(signal.out[i])
                            => signal.out[i].strength >= signal.min_strength
           /\ \A i \in 1..Len(signals) :
                    Matches(signals[i], signal.type, signal.min_strength)
                        => CountIn(signal.out, signals[i])
                                = CountIn(signals, signals[i])
           /\ IsSubsequence(signal.out, signals)
           /\ type_upper(signal.type) \in {"BUY", "SELL"}
                    => \A i \in 1..Len(signal.out) :
                            signal.out[i].signal # "ERROR"
           /\ signal.again = signal.out

\* A filter kept a record whose strength equals min_strength and dropped
\* another record of its input, which held an ERROR record.
C38_Witness ==
    /\ signal.op = "filter_by_signal"
    /\ signal.min_strength > 0
    /\ Len(signal.out) = 1
    /\ signal.out[1].strength = signal.min_strength
    /\ Len(signals) = 2
    /\ \E i \in 1..Len(signals) : signals[i].signal = "ERROR"


(***************************************************************************)
(* SpecRace: is_fresh, get and invalidate of one thread, step by step,     *)
(* while another thread or process invalidates and writes entries          *)
(***************************************************************************)
\* last.kind while the call is under way: the existence check has passed
\* and the call is about to stat ("at_stat"), to read ("at_read") or to
\* unlink ("at_unlink") the file.

InitRace ==
    /\ store \in {[f \in Files |-> NoFile],
                  [f \in Files |->
                        IF f = _get_cache_path(SymA, I1d)
                        THEN [data |-> "s1", mtime |-> 0] ELSE NoFile]}
    /\ now = 0
    /\ enabled = TRUE
    /\ ttl_arg = GivenTtl(ConfiguredTtl)
    /\ ttl_minutes = ConfiguredTtl
    /\ writers = NoWriters
    /\ last = NoCall
    /\ InitScanIdle
    /\ InitSignalIdle

\* is_fresh / get up to cache_path.exists(): a missing file ends the call
\* with False / None.
BeginRead(op, symbol, interval) ==
    /\ last.kind \in {"ret", "exc"}
    /\ enabled
    /\ last' = IF exists(_get_cache_path(symbol, interval))
               THEN [Call(op, symbol, interval) EXCEPT !.kind = "at_stat"]
               ELSE Call(op, symbol, interval)
    /\ UNCHANGED cacheVars
    /\ UNCHANGED <<scanVars, sigVars>>

\* cache_path.stat().st_mtime and the comparison with the expiry: stat
\* raises FileNotFoundError on a file that is gone, and neither is_fresh nor
\* get (which calls is_fresh outside its try block) catches it.
Stat ==
    LET cache_path == _get_cache_path(last.symbol, last.interval)
        is_valid == now < store[cache_path].mtime + _get_ttl(last.interval)
    IN  /\ last.kind = "at_stat"
        /\ last' = IF ~exists(cache_path)
                   THEN [last EXCEPT !.kind = "exc", !.msg = "FileNotFoundError"]
                   ELSE IF last.op = "is_fresh"
                   THEN [last EXCEPT !.kind = "ret", !.flag = is_valid]
                   ELSE IF is_valid THEN [last EXCEPT !.kind = "at_read"]
                   ELSE [last EXCEPT !.kind = "ret"]
        /\ UNCHANGED cacheVars
        /\ UNCHANGED <<scanVars, sigVars>>

\* pd.read_parquet inside get's try block: a failure, a missing file
\* included, is logged and None is returned.
Read ==
    LET cache_path == _get_cache_path(last.symbol, last.interval)
    IN  /\ last.kind = "at_read"
        /\ last' = IF exists(cache_path)
                        /\ read_parquet(cache_path).kind = "ret"
                   THEN [last EXCEPT !.kind = "ret",
                                     !.val = read_parquet(cache_path).data]
                   ELSE [last EXCEPT !.kind = "ret"]
        /\ UNCHANGED cacheVars
        /\ UNCHANGED <<scanVars, sigVars>>

\* invalidate(symbol, interval) up to cache_path.exists().
BeginInvalidate(symbol, interval) ==
    /\ last.kind \in {"ret", "exc"}
    /\ last' = [NoCall EXCEPT
                    !.op = "invalidate", !.symbol = symbol,
                    !.interval = interval,
                    !.kind = IF exists(_get_cache_path(symbol, interval))
                             THEN "at_unlink" ELSE "ret"]
    /\ UNCHANGED cacheVars
    /\ UNCHANGED <<scanVars, sigVars>>

\* cache_path.unlink(): FileNotFoundError on a file that is gone.
Unlink ==
    LET cache_path == _get_cache_path(last.symbol, last.interval)
    IN  /\ last.kind = "at_unlink"
        /\ IF exists(cache_path)
           THEN /\ store' = [store EXCEPT ![cache_path] = NoFile]
                /\ last' = [last EXCEPT !.kind = "ret"]
           ELSE /\ store' = store
                /\ last' = [last EXCEPT !.kind = "exc", !.msg = "FileNotFoundError"]
        /\ UNCHANGED <<now, enabled, ttl_minutes, ttl_arg, writers>>
        /\ UNCHANGED <<scanVars, sigVars>>

\* Another thread or process completes an invalidate or a set.
OtherInvalidate(symbol, interval) ==
    /\ store' = invalidate(symbol, interval)
    /\ store' # store
    /\ UNCHANGED <<now, enabled, ttl_minutes, ttl_arg, writers, last>>
    /\ UNCHANGED <<scanVars, sigVars>>

OtherSet(symbol, interval, data) ==
    /\ store' = set(symbol, interval, data, "ok").store
    /\ store' # store
    /\ UNCHANGED <<now, enabled, ttl_minutes, ttl_arg, writers, last>>
    /\ UNCHANGED <<scanVars, sigVars>>

NextRace ==
    \/ Tick
    \/ \E op \in {"is_fresh", "get"}, i \in Intervals :
          BeginRead(op, SymA, i)
    \/ Stat
    \/ Read
    \/ \E i \in Intervals : BeginInvalidate(SymA, i)
    \/ Unlink
    \/ \E i \in Intervals \cup {<<>>} : OtherInvalidate(SymA, i)
    \/ \E i \in Intervals : OtherSet(SymA, i, "s2")

SpecRace == InitRace /\ [][NextRace]_vars

\* C39: is_fresh, get and invalidate do not raise when another thread or
\* process invalidates the same entry while they run; an entry deleted
\* under them is reported as a miss.
C39_RacesNeverRaise ==
    last.op \in {"is_fresh", "get", "invalidate"} => last.kind # "exc"

=============================================================================
